---- MODULE Spec2Model ----
(***************************************************************************)
(* Weather MCP server (week3/server/main.py): the HTTP fetcher with its    *)
(* retry loop (fetch_with_retry), the location resolver (get_coordinates)  *)
(* and the tool dispatcher (list_tools, call_tool), as state machines.     *)
(*                                                                         *)
(* A coroutine is a frame: a program position (fpc, rpc) and its locals.   *)
(* Every await is a suspension point and therefore an action boundary.     *)
(* The upstream provider is the environment: each GET is answered by one   *)
(* outcome drawn from Outcomes.                                            *)
(***************************************************************************)
EXTENDS Integers, Sequences, FiniteSets, TLC

VARIABLES
    req,          \* fetch_with_retry: the (url, params) arguments
    max_retries,  \* fetch_with_retry: the max_retries argument
    attempt,      \* fetch_with_retry: the loop variable of `for attempt in range(max_retries)`
    fpc,          \* fetch_with_retry: position ("idle" = no frame)
    result,       \* fetch_with_retry: how the call ended (value returned or exception raised)
    trace,        \* observation: the GETs issued and sleeps taken by the current fetch, in order
    location,     \* get_coordinates: the location argument (a sequence of characters)
    rpc,          \* get_coordinates: position ("idle" = no frame)
    rresult,      \* get_coordinates: how the call ended
    lookups,      \* observation: the fetch_with_retry calls made by the current get_coordinates call
    prev,         \* observation: how the previous get_coordinates call on this location ended,
                  \* kept when that call made no lookup (NoResult otherwise)
    api_key,      \* the module global OPENWEATHER_API_KEY, read from the environment at import
    calls,        \* call_tool: one frame per invocation being served (see IdleCall)
    listed,       \* observation: what the last list_tools call returned
    process,      \* the server process from its start (run.py, main.py) to serving or exit
    fmt,          \* one call of a formatter: the function, its arguments and what it gave
    notes         \* the notes application (week2): its tables and the extract request served

vars ==
    <<req, max_retries, attempt, fpc, result, trace, location, rpc, rresult, lookups, prev,
      api_key, calls, listed, process, fmt, notes>>
fetchVars == <<req, max_retries, attempt, fpc, result, trace>>
resolveVars == <<location, rpc, rresult, lookups, prev>>
callVars == <<api_key, calls, listed>>
extVars == <<process, fmt, notes>>

---------------------------------------------------------------------------
(* Bounds of the exploration.                                              *)

\* Largest max_retries argument explored (the default, 3, is within it).
MaxRetriesBound == 3
\* Longest location string explored.
MaxLocLen == 4

---------------------------------------------------------------------------
(* JSON values, as returned by response.json().                            *)

JNull == [t |-> "null"]
JNum(m, e) == [t |-> "num", m |-> m, e |-> e]      \* the number m / 10^e
JStr(s) == [t |-> "str", s |-> s]
JList(items) == [t |-> "list", items |-> items]
JDict(d) == [t |-> "dict", d |-> d]

\* Python truthiness of a JSON value (`not data`, main.py:331).
Truthy(v) ==
    CASE v.t = "null" -> FALSE
      [] v.t = "num"  -> v.m # 0
      [] v.t = "str"  -> v.s # ""
      [] v.t = "list" -> Len(v.items) > 0
      [] v.t = "dict" -> DOMAIN v.d # {}

---------------------------------------------------------------------------
(* Results of a call: a returned value or a raised exception.              *)

Return(v) == [how |-> "return", exc |-> "", kind |-> "", status |-> 0, text |-> "", value |-> v]
\* raise WeatherAPIError(<message of the given kind>)
Raise(kind) ==
    [how |-> "raise", exc |-> "WeatherAPIError", kind |-> kind, status |-> 0, text |-> "", value |-> JNull]
\* raise WeatherAPIError(f"HTTP error {status}: {text}")
RaiseHttp(status, text) ==
    [how |-> "raise", exc |-> "WeatherAPIError", kind |-> "HttpError", status |-> status, text |-> text,
     value |-> JNull]
\* an exception of another type leaving the function uncaught
Escape(exc) == [how |-> "raise", exc |-> exc, kind |-> "", status |-> 0, text |-> "", value |-> JNull]
NoResult == [how |-> "none", exc |-> "", kind |-> "", status |-> 0, text |-> "", value |-> JNull]

\* The value of an expression, or the exception its evaluation raises.
Got(v) == [ok |-> TRUE, v |-> v, exc |-> ""]
Raised(exc) == [ok |-> FALSE, v |-> JNull, exc |-> exc]

---------------------------------------------------------------------------
(* The frames of call_tool.  The server serves invocations concurrently:   *)
(* each one is a coroutine with its own arguments and locals.              *)

Tasks == { "t1", "t2" }

\* No invocation: the frame of a task that is not running.  The fields are
\* the arguments (name, arguments), the locals (location, units, lat_lon),
\* the frame of the fetch_with_retry call in progress (req, attempt), the
\* position pc, what the invocation returned or raised (ret), and two
\* observations: the fetch_with_retry calls made (fetches) and the GETs and
\* sleeps of every fetch of the invocation in order (trace).
IdleCall ==
    [ pc |-> "idle", name |-> "", arguments |-> JNull, location |-> <<>>, units |-> "",
      lat_lon |-> JNull, stage |-> "none", req |-> [url |-> "", params |-> <<>>], attempt |-> 0, ret |-> NoResult,
      fetches |-> <<>>, trace |-> <<>> ]

NoCalls == [t \in Tasks |-> IdleCall]

\* The values of process, fmt and notes where the server start, the
\* formatters and the notes application are not part of the exploration.
\* No server process is being started.
NoProcess == [pc |-> "none", entry |-> "", dependencies |-> TRUE, env_file |-> TRUE, code |-> 0]
\* No formatter is being called.
NoFormat == [pc |-> "none", fn |-> "", data |-> JNull, unit |-> "", ret |-> Got(JNull)]
\* No request is being handled by the notes application.
NoNotes == [pc |-> "none", notes |-> <<>>, action_items |-> <<>>, before |-> 0, payload |-> <<>>,
            chat |-> <<>>, items |-> JNull, ret |-> <<>>]

---------------------------------------------------------------------------
(* The upstream's answers to one GET.                                      *)

\* A response body: a JSON document holding value v, or text that is not JSON.
JsonBody(v) == [json |-> TRUE, v |-> v, text |-> ""]
TextBody(s) == [json |-> FALSE, v |-> JNull, text |-> s]

Response(status, body) == [kind |-> "response", status |-> status, body |-> body]
TimeoutOutcome == [kind |-> "timeout", status |-> 0, body |-> TextBody("")]
RequestErrorOutcome == [kind |-> "neterr", status |-> 0, body |-> TextBody("")]

\* Geocoding-shaped JSON documents: no match, a match, malformed matches.
GeoValues ==
    { JList(<<>>),
      JList(<<JDict([lat |-> JNum(99, 1), lon |-> JNum(-9, 0)])>>),
      JList(<<JDict([lat |-> JNum(99, 0), lon |-> JNum(9, 0)])>>),
      JList(<<JDict([lat |-> JNum(9, 0)])>>),
      JList(<<JDict([lon |-> JNum(9, 0)])>>),
      JList(<<JNum(9, 0)>>),
      JDict([cod |-> JNum(9, 0)]),
      JNull }

\* Bodies of a 2xx response: JSON documents, or a body that is not JSON.
OkBodies == { JsonBody(v) : v \in GeoValues } \cup { TextBody("<html>") }
\* Bodies of an error response (read only for the "other status" case).
ErrTexts == { "err-a", "err-b" }

Outcomes ==
    { Response(200, b) : b \in OkBodies }
    \cup { Response(s, TextBody("err-a")) : s \in {401, 403, 404, 429} }
    \cup { Response(500, TextBody(b)) : b \in ErrTexts }
    \cup { TimeoutOutcome, RequestErrorOutcome }

---------------------------------------------------------------------------
(* fetch_with_retry (main.py:56-110).                                      *)

GetEvent(r, o) == [ev |-> "GET", req |-> r, out |-> o, secs |-> 0]
SleepEvent(n) == [ev |-> "SLEEP", req |-> <<>>, out |-> TimeoutOutcome, secs |-> n]

\* What one loop iteration decides: leave the function, or sleep and continue.
Done(r) == [pc |-> "done", result |-> r]
Retry(pc) == [pc |-> pc, result |-> NoResult]

\* Mutant: the retry test of the 429 branch off by one.
RateLimitRetryOffByOne(a, mr) == a < mr
\* `attempt < max_retries - 1` of the 429 branch (main.py:90).
RateLimitRetryAllowed(a, mr) == a < mr - 1
\* Mutant: a timeout retried whatever the attempt.
TimeoutRetryAlways(a, mr) == TRUE
\* `attempt < max_retries - 1` of the timeout branch (main.py:101).
TimeoutRetryAllowed(a, mr) == a < mr - 1

\* Mutant: a linear instead of an exponential backoff.
BackoffDelayLinear(a) == 2 * a
\* asyncio.sleep(2**attempt) (main.py:92).
BackoffDelay(a) == 2 ^ a
\* asyncio.sleep(1) (main.py:103).
TimeoutDelay == 1

\* response.raise_for_status() raises for a status outside 2xx (main.py:80).
IsSuccess(status) == status >= 200 /\ status <= 299

\* return response.json() (main.py:81); json() raises on a body that is not JSON.
OnSuccess(o) ==
    IF o.body.json THEN Done(Return(o.body.v)) ELSE Done(Escape("JSONDecodeError"))

\* Mutant: 401 and 404 handled like 429, as retryable statuses.
OnStatusErrorRetryClientErrors(o, a, mr) ==
    IF o.status \in {401, 404, 429} THEN
        IF RateLimitRetryAllowed(a, mr) THEN Retry("backoff") ELSE Done(Raise("RateLimited"))
    ELSE Done(RaiseHttp(o.status, o.body.text))
\* except httpx.HTTPStatusError (main.py:82-99).
OnStatusError(o, a, mr) ==
    IF o.status = 401 THEN Done(Raise("AuthInvalid"))
    ELSE IF o.status = 404 THEN Done(Raise("NotFound"))
    ELSE IF o.status = 429 THEN
        IF RateLimitRetryAllowed(a, mr) THEN Retry("backoff") ELSE Done(Raise("RateLimited"))
    ELSE Done(RaiseHttp(o.status, o.body.text))

\* Mutant: a timeout backed off exponentially, like a 429.
OnTimeoutExponential(o, a, mr) ==
    IF TimeoutRetryAllowed(a, mr) THEN Retry("backoff") ELSE Done(Raise("Timeout"))
\* except httpx.TimeoutException (main.py:100-106).
OnTimeout(o, a, mr) ==
    IF TimeoutRetryAllowed(a, mr) THEN Retry("pause") ELSE Done(Raise("Timeout"))

\* Mutant: every request error retried like a timeout.
OnRequestErrorRetried(o, a, mr) == OnTimeout(o, a, mr)
\* except httpx.RequestError (main.py:107-108).
OnRequestError(o, a, mr) == Done(Raise("NetworkFailure"))

\* The body of the loop for one outcome of the GET (main.py:78-108).
Attempt(o, a, mr) ==
    CASE o.kind = "response" /\ IsSuccess(o.status)  -> OnSuccess(o)
      [] o.kind = "response" /\ ~IsSuccess(o.status) -> OnStatusError(o, a, mr)
      [] o.kind = "timeout"                          -> OnTimeout(o, a, mr)
      [] o.kind = "neterr"                           -> OnRequestError(o, a, mr)

\* Mutant: a loop whose body runs at least once.
ForLoopAtLeastOnce(a, mr) == IF a < mr \/ a = 0 THEN Retry("get") ELSE Done(Raise("Exhausted"))
\* `for attempt in range(max_retries)` with the loop variable at a: the next
\* iteration, or the statement after the loop (main.py:77, 110).
ForLoop(a, mr) == IF a < mr THEN Retry("get") ELSE Done(Raise("Exhausted"))

\* Entering fetch_with_retry: the first evaluation of the for statement.
FetchEnter ==
    /\ fpc = "call"
    /\ attempt' = 0
    /\ fpc' = ForLoop(0, max_retries).pc
    /\ result' = ForLoop(0, max_retries).result
    /\ UNCHANGED <<req, max_retries, trace, resolveVars, callVars, extVars>>

\* await client.get(...) answered by outcome o, and the handling of o up to
\* the next suspension point (main.py:79-108).
Get(o) ==
    /\ fpc = "get"
    /\ trace' = Append(trace, GetEvent(req, o))
    /\ fpc' = Attempt(o, attempt, max_retries).pc
    /\ result' = Attempt(o, attempt, max_retries).result
    /\ UNCHANGED <<req, max_retries, attempt, resolveVars, callVars, extVars>>

\* await asyncio.sleep(2**attempt); continue (main.py:92-93).
Backoff ==
    /\ fpc = "backoff"
    /\ trace' = Append(trace, SleepEvent(BackoffDelay(attempt)))
    /\ attempt' = attempt + 1
    /\ fpc' = ForLoop(attempt + 1, max_retries).pc
    /\ result' = ForLoop(attempt + 1, max_retries).result
    /\ UNCHANGED <<req, max_retries, resolveVars, callVars, extVars>>

\* await asyncio.sleep(1); continue (main.py:103-104).
Pause ==
    /\ fpc = "pause"
    /\ trace' = Append(trace, SleepEvent(TimeoutDelay))
    /\ attempt' = attempt + 1
    /\ fpc' = ForLoop(attempt + 1, max_retries).pc
    /\ result' = ForLoop(attempt + 1, max_retries).result
    /\ UNCHANGED <<req, max_retries, resolveVars, callVars, extVars>>

\* The max_retries arguments explored: non-positive ones and 1..MaxRetriesBound.
RetryArgs == (0 - 1) .. MaxRetriesBound

\* The requests a direct caller passes.
Requests ==
    { [url |-> "BASE/weather", params |-> [lat |-> JNum(9, 0), lon |-> JNum(-9, 0), appid |-> "KEY"]],
      [url |-> "GEO/direct", params |-> [q |-> <<"x">>, limit |-> 1, appid |-> "KEY"]] }

\* fetch_with_retry called directly, with any request and any max_retries.
InitFetch ==
    /\ req \in Requests
    /\ max_retries \in RetryArgs
    /\ attempt = 0
    /\ fpc = "call"
    /\ result = NoResult
    /\ trace = <<>>
    /\ location = <<>>
    /\ rpc = "idle"
    /\ rresult = NoResult
    /\ lookups = <<>>
    /\ prev = NoResult
    /\ api_key = "KEY"
    /\ calls = NoCalls
    /\ listed = <<>>
    /\ process = NoProcess
    /\ fmt = NoFormat
    /\ notes = NoNotes

NextFetch ==
    \/ FetchEnter
    \/ \E o \in Outcomes : Get(o)
    \/ Backoff
    \/ Pause

SpecFetch == InitFetch /\ [][NextFetch]_vars

---------------------------------------------------------------------------
(* Strings are sequences of one-character strings.  The operators below    *)
(* are Python's str.__contains__, str.split, str.strip and float().        *)

\* The characters location strings are built from: two digits, the sign,
\* the decimal point, the separator, whitespace and a letter.
LocChars == { "9", "0", "-", ".", ",", " ", "x" }

RECURSIVE CharSeqs(_)
CharSeqs(n) ==
    IF n = 0 THEN { <<>> }
    ELSE CharSeqs(n - 1) \cup { Append(s, c) : s \in { t \in CharSeqs(n - 1) : Len(t) = n - 1 }, c \in LocChars }

\* The location arguments explored: every string of at most MaxLocLen characters.
Locations == CharSeqs(MaxLocLen)

\* `c in s`
Contains(s, c) == \E i \in 1 .. Len(s) : s[i] = c

\* Index of the first occurrence of c in s (s contains c).
FirstIndex(s, c) == CHOOSE i \in 1 .. Len(s) : s[i] = c /\ \A j \in 1 .. (i - 1) : s[j] # c

\* s.split(sep): the pieces between the separators, empty pieces included.
RECURSIVE Split(_, _)
Split(s, sep) ==
    IF ~Contains(s, sep) THEN << s >>
    ELSE << SubSeq(s, 1, FirstIndex(s, sep) - 1) >>
         \o Split(SubSeq(s, FirstIndex(s, sep) + 1, Len(s)), sep)

\* Whitespace: what str.strip() removes and \s matches, of the characters
\* explored.
IsSpace(c) == c \in { " ", "\t", "\n", "\r" }

\* s.strip(): leading and trailing whitespace removed.
RECURSIVE Strip(_)
Strip(s) ==
    IF s = <<>> THEN s
    ELSE IF IsSpace(Head(s)) THEN Strip(Tail(s))
    ELSE IF IsSpace(s[Len(s)]) THEN Strip(SubSeq(s, 1, Len(s) - 1))
    ELSE s

IsDigit(c) == c \in { "0", "1", "2", "3", "4", "5", "6", "7", "8", "9" }
DigitVal(c) ==
    CASE c = "0" -> 0 [] c = "1" -> 1 [] c = "2" -> 2 [] c = "3" -> 3 [] c = "4" -> 4
      [] c = "5" -> 5 [] c = "6" -> 6 [] c = "7" -> 7 [] c = "8" -> 8 [] c = "9" -> 9

\* The number written by a sequence of digits.
RECURSIVE DigitsVal(_)
DigitsVal(s) ==
    IF s = <<>> THEN 0 ELSE DigitsVal(SubSeq(s, 1, Len(s) - 1)) * 10 + DigitVal(s[Len(s)])

\* m / 10^e without trailing zeros in the fraction: equal numbers, equal values.
RECURSIVE Norm(_, _)
Norm(m, e) == IF e > 0 /\ m % 10 = 0 THEN Norm(m \div 10, e - 1) ELSE JNum(m, e)

\* float(s) of a string without sign: digits with at most one decimal point
\* and at least one digit; anything else raises ValueError.
ParseUnsigned(s) ==
    IF s = <<>> \/ \E i \in 1 .. Len(s) : ~(IsDigit(s[i]) \/ s[i] = ".")
    THEN Raised("ValueError")
    ELSE IF ~Contains(s, ".")
    THEN Got(JNum(DigitsVal(s), 0))
    ELSE LET p == FirstIndex(s, ".")
             whole == SubSeq(s, 1, p - 1)
             frac == SubSeq(s, p + 1, Len(s))
         IN  IF Contains(frac, ".") \/ (whole = <<>> /\ frac = <<>>)
             THEN Raised("ValueError")
             ELSE Got(Norm(DigitsVal(whole \o frac), Len(frac)))

\* float(s): surrounding whitespace ignored, an optional sign, then the number.
\* (Exponents, underscores, inf and nan need characters outside LocChars.)
ParseFloat(s) ==
    LET t == Strip(s) IN
    IF t # <<>> /\ Head(t) \in { "-", "+" }
    THEN LET u == ParseUnsigned(Tail(t)) IN
         IF u.ok /\ Head(t) = "-" THEN Got(JNum(0 - u.v.m, u.v.e)) ELSE u
    ELSE ParseUnsigned(t)

\* lo <= x <= hi for a number x = m / 10^e and integers lo, hi.
Between(lo, x, hi) == lo * (10 ^ x.e) <= x.m /\ x.m <= hi * (10 ^ x.e)

---------------------------------------------------------------------------
(* Python subscription of a JSON value.                                    *)

\* x[0]
Index0(x) ==
    CASE x.t = "list" -> IF Len(x.items) > 0 THEN Got(x.items[1]) ELSE Raised("IndexError")
      [] x.t = "dict" -> Raised("KeyError")
      [] x.t = "str"  -> IF x.s # "" THEN Got(x) ELSE Raised("IndexError")
      [] OTHER        -> Raised("TypeError")

\* x[key] for a string key
GetKey(x, key) ==
    CASE x.t = "dict" -> IF key \in DOMAIN x.d THEN Got(x.d[key]) ELSE Raised("KeyError")
      [] OTHER        -> Raised("TypeError")

---------------------------------------------------------------------------
(* get_coordinates (main.py:300-336).                                      *)

\* The value of OPENWEATHER_API_KEY (main.py:39): what os.getenv found when
\* the module was imported.
OPENWEATHER_API_KEY == api_key
\* The default of fetch_with_retry's max_retries parameter (main.py:60).
DefaultMaxRetries == 3

Tuple(lat, lon) == [t |-> "tuple", lat |-> lat, lon |-> lon]

\* Mutant: the latitude range applied to both numbers.
InRangeLatitudeTwice(lat, lon) == Between(-90, lat, 90) /\ Between(-90, lon, 90)
\* -90 <= lat <= 90 and -180 <= lon <= 180 (main.py:320).
InRange(lat, lon) == Between(-90, lat, 90) /\ Between(-180, lon, 180)

\* parts[i] of a Python list, i counted from 0.
Item(parts, i) == IF i < Len(parts) THEN Got(parts[i + 1]) ELSE Raised("IndexError")

\* float(parts[i].strip()) (main.py:318-319).
FloatOfPart(parts, i) ==
    IF Item(parts, i).ok THEN ParseFloat(Strip(Item(parts, i).v)) ELSE Item(parts, i)

\* Mutant: the handler without ValueError.
ParseCaughtIndexErrorOnly(exc) == exc \in { "IndexError" }
\* The exceptions the coordinate check swallows: except (ValueError, IndexError) (main.py:322).
ParseCaught(exc) == exc \in { "ValueError", "IndexError" }

\* How the coordinate check ends.
CoordsFound(v) == [how |-> "return", v |-> v, exc |-> ""]
FallThrough == [how |-> "fallthrough", v |-> JNull, exc |-> ""]
ParseEscapes(exc) == [how |-> "raise", v |-> JNull, exc |-> exc]

\* The coordinate check (main.py:315-323): lat is converted before lon, the
\* first exception ends the try body; the coordinates are returned when both
\* convert and are in range, otherwise control falls through to geocoding.
ParseCoordinates(loc) ==
    IF ~Contains(loc, ",") THEN FallThrough
    ELSE LET parts == Split(loc, ",")
             lat == FloatOfPart(parts, 0)
             lon == FloatOfPart(parts, 1)
             exc == IF ~lat.ok THEN lat.exc ELSE IF ~lon.ok THEN lon.exc ELSE ""
         IN  IF exc # "" THEN (IF ParseCaught(exc) THEN FallThrough ELSE ParseEscapes(exc))
             ELSE IF InRange(lat.v, lon.v) THEN CoordsFound(Tuple(lat.v, lon.v))
             ELSE FallThrough

\* params and url of the geocoding request (main.py:326-327).
GeocodeRequest(loc) ==
    [url |-> "GEO/direct", params |-> [q |-> loc, limit |-> 1, appid |-> OPENWEATHER_API_KEY]]

\* `return data[0]["lat"], data[0]["lon"]` under `except (KeyError, IndexError)`
\* (main.py:334-336).
ExtractFirst(data) ==
    LET first == Index0(data)
        lat == GetKey(first.v, "lat")
        lon == GetKey(first.v, "lon")
        failed == IF ~first.ok THEN first.exc ELSE IF ~lat.ok THEN lat.exc ELSE IF ~lon.ok THEN lon.exc ELSE ""
    IN  IF failed = "" THEN Return(Tuple(lat.v, lon.v))
        ELSE IF failed \in { "KeyError", "IndexError" } THEN Raise("GeocodeParse")
        ELSE Escape(failed)

\* Mutant: the emptiness test of the geocoding result left out.
AfterGeocodeNoEmptyTest(r) == IF r.how = "raise" THEN r ELSE ExtractFirst(r.value)
\* What get_coordinates does with the outcome r of its fetch (main.py:330-336):
\* an exception of the fetch propagates, falsy data is "not found".
AfterGeocode(r) ==
    IF r.how = "raise" THEN r
    ELSE IF ~Truthy(r.value) THEN Raise("LocationNotFound")
    ELSE ExtractFirst(r.value)

\* get_coordinates up to its first suspension: the coordinate check, then
\* either the return or the call of fetch_with_retry (main.py:315-330).
Resolve ==
    /\ rpc = "call"
    /\ IF ParseCoordinates(location).how = "return"
       THEN /\ rpc' = "done"
            /\ rresult' = Return(ParseCoordinates(location).v)
            /\ UNCHANGED <<lookups, fetchVars>>
       ELSE IF ParseCoordinates(location).how = "raise"
       THEN /\ rpc' = "done"
            /\ rresult' = Escape(ParseCoordinates(location).exc)
            /\ UNCHANGED <<lookups, fetchVars>>
       ELSE /\ rpc' = "geocoding"
            /\ req' = GeocodeRequest(location)
            /\ max_retries' = DefaultMaxRetries
            /\ attempt' = 0
            /\ fpc' = "call"
            /\ result' = NoResult
            /\ trace' = <<>>
            /\ lookups' = Append(lookups, GeocodeRequest(location))
            /\ UNCHANGED rresult
    /\ UNCHANGED <<location, prev, callVars, extVars>>

\* The fetch is over: get_coordinates resumes with its outcome and ends
\* (main.py:330-336).  The frame of fetch_with_retry is gone; result keeps
\* what the fetch delivered.
GeocodeReturn ==
    /\ rpc = "geocoding"
    /\ fpc = "done"
    /\ rresult' = AfterGeocode(result)
    /\ rpc' = "done"
    /\ fpc' = "idle"
    /\ attempt' = 0
    /\ trace' = <<>>
    /\ UNCHANGED <<req, max_retries, result, location, lookups, prev, callVars, extVars>>

\* The caller resolves the same location once more: a new call of
\* get_coordinates, with nothing kept from the previous one (main.py:300).
ResolveAgain ==
    /\ rpc = "done"
    /\ rpc' = "call"
    /\ prev' = (IF lookups = <<>> THEN rresult ELSE NoResult)
    /\ rresult' = NoResult
    /\ lookups' = <<>>
    /\ req' = GeocodeRequest(<<>>)
    /\ result' = NoResult
    /\ UNCHANGED <<location, max_retries, attempt, fpc, trace, callVars, extVars>>

\* get_coordinates called with any location.
InitResolve ==
    /\ api_key = "KEY"
    /\ location \in Locations
    /\ rpc = "call"
    /\ rresult = NoResult
    /\ lookups = <<>>
    /\ prev = NoResult
    /\ req = GeocodeRequest(<<>>)
    /\ max_retries = DefaultMaxRetries
    /\ attempt = 0
    /\ fpc = "idle"
    /\ result = NoResult
    /\ trace = <<>>
    /\ calls = NoCalls
    /\ listed = <<>>
    /\ process = NoProcess
    /\ fmt = NoFormat
    /\ notes = NoNotes

NextResolve ==
    \/ Resolve
    \/ GeocodeReturn
    \/ ResolveAgain
    \/ FetchEnter
    \/ \E o \in Outcomes : Get(o)
    \/ Backoff
    \/ Pause

SpecResolve == InitResolve /\ [][NextResolve]_vars

---------------------------------------------------------------------------
(* Observations of one fetch, read off its trace.                          *)

IsGet(e) == e.ev = "GET"
IsSleep(e) == e.ev = "SLEEP"
\* The outcomes of the GETs issued so far, in order.
Outs == [i \in 1 .. Len(SelectSeq(trace, IsGet)) |-> SelectSeq(trace, IsGet)[i].out]
\* The sleeps taken so far, in seconds, in order.
SleepSecs == [i \in 1 .. Len(SelectSeq(trace, IsSleep)) |-> SelectSeq(trace, IsSleep)[i].secs]
NumGets == Len(Outs)

RECURSIVE SumSeq(_)
SumSeq(s) == IF s = <<>> THEN 0 ELSE Head(s) + SumSeq(Tail(s))
TotalSlept == SumSeq(SleepSecs)

Is429(o) == o.kind = "response" /\ o.status = 429
IsTimeoutOut(o) == o.kind = "timeout"
IsNetErr(o) == o.kind = "neterr"
IsJson2xx(o) == o.kind = "response" /\ o.status >= 200 /\ o.status <= 299 /\ o.body.json
IsOtherStatus(o) ==
    o.kind = "response" /\ ~(o.status >= 200 /\ o.status <= 299) /\ o.status \notin {401, 404, 429}
LastIsGet == trace # <<>> /\ IsGet(trace[Len(trace)])

---------------------------------------------------------------------------
(* Claims about fetch_with_retry, checked under SpecFetch.                 *)

\* C1: when the first k GETs (0 <= k < max_retries) are answered 429 and GET
\* k+1 is answered 2xx with a JSON body, the fetch is over at that GET: it has
\* returned that JSON value after exactly k+1 GETs, the trace is GET, sleep 2^0,
\* GET, sleep 2^1, ..., GET with nothing else in it, and the sleeps add up to
\* 2^k - 1 seconds.
C1_Backoff429ThenSuccess ==
    \A k \in 0 .. (max_retries - 1) :
        ( /\ NumGets >= k + 1
          /\ \A i \in 1 .. k : Is429(Outs[i])
          /\ IsJson2xx(Outs[k + 1]) )
        => /\ fpc = "done"
           /\ result = Return(Outs[k + 1].body.v)
           /\ NumGets = k + 1
           /\ Len(trace) = 2 * k + 1
           /\ \A i \in 0 .. k : trace[2 * i + 1] = GetEvent(req, Outs[i + 1])
           /\ \A i \in 0 .. (k - 1) : trace[2 * i + 2] = SleepEvent(2 ^ i)
           /\ TotalSlept = 2 ^ k - 1

\* Two 429s then a 200 under max_retries = 3: three GETs, 1 + 2 = 3 s slept.
C1_Witness ==
    /\ max_retries = 3
    /\ fpc = "done"
    /\ NumGets = 3
    /\ Is429(Outs[1]) /\ Is429(Outs[2]) /\ IsJson2xx(Outs[3])
    /\ result.how = "return"
    /\ TotalSlept = 3

\* C2: once max_retries (>= 1) consecutive GETs have been answered 429 the
\* fetch is over with the RateLimited error: exactly max_retries GETs were
\* issued, max_retries - 1 sleeps were taken, none of them after the final
\* GET; and no fetch ever issues more GETs than max_retries.
C2_RateLimitExhausted ==
    /\ NumGets <= (IF max_retries > 0 THEN max_retries ELSE 0)
    /\ ( /\ max_retries >= 1
         /\ NumGets >= max_retries
         /\ \A i \in 1 .. max_retries : Is429(Outs[i]) )
       => /\ fpc = "done"
          /\ result = Raise("RateLimited")
          /\ NumGets = max_retries
          /\ Len(SleepSecs) = max_retries - 1
          /\ LastIsGet

C2_Witness ==
    /\ max_retries = 3
    /\ NumGets = 3
    /\ \A i \in 1 .. 3 : Is429(Outs[i])
    /\ result = Raise("RateLimited")
    /\ SleepSecs = <<1, 2>>

\* C3: a GET answered 401 or 404 is the last event of its fetch, on whichever
\* attempt it comes: the fetch is over with AuthInvalid (401) or NotFound
\* (404), no GET and no sleep follows that response.
C3_AuthAndNotFoundFailImmediately ==
    \A j \in 1 .. Len(trace) :
        (IsGet(trace[j]) /\ trace[j].out.kind = "response" /\ trace[j].out.status \in {401, 404})
        => /\ j = Len(trace)
           /\ fpc = "done"
           /\ result = (IF trace[j].out.status = 401 THEN Raise("AuthInvalid") ELSE Raise("NotFound"))

\* A 401 on the third attempt, after a retried 429 and a retried timeout.
C3_Witness ==
    /\ NumGets = 3
    /\ Is429(Outs[1]) /\ IsTimeoutOut(Outs[2])
    /\ Outs[3].kind = "response" /\ Outs[3].status = 401
    /\ result = Raise("AuthInvalid")
    /\ LastIsGet

\* C4: a GET that times out is retried while attempts remain, after a sleep
\* of exactly 1 second whatever the attempt index; a timeout on the last
\* allowed attempt ends the fetch with the Timeout error and no sleep; so
\* max_retries timeouts in a row are max_retries GETs and max_retries - 1
\* seconds of delay.
C4_TimeoutFlatDelay ==
    /\ \A j \in 1 .. Len(trace) :
        (IsGet(trace[j]) /\ IsTimeoutOut(trace[j].out))
        => /\ j < Len(trace) => trace[j + 1] = SleepEvent(1)
           /\ j = Len(trace) =>
                IF NumGets < max_retries
                THEN fpc = "pause"
                ELSE fpc = "done" /\ result = Raise("Timeout")
    /\ ( /\ fpc = "done"
         /\ NumGets >= 1
         /\ \A i \in 1 .. NumGets : IsTimeoutOut(Outs[i]) )
       => /\ NumGets = max_retries
          /\ result = Raise("Timeout")
          /\ TotalSlept = max_retries - 1
          /\ LastIsGet

C4_Witness ==
    /\ max_retries = 3
    /\ fpc = "done"
    /\ NumGets = 3
    /\ \A i \in 1 .. 3 : IsTimeoutOut(Outs[i])
    /\ SleepSecs = <<1, 1>>
    /\ result = Raise("Timeout")

\* C5: only a 429 or a timeout is ever followed by a sleep or by another GET;
\* a network-layer failure other than a timeout ends the fetch at that GET
\* with NetworkFailure, and a non-2xx status other than 401, 404, 429 ends it
\* at that GET with HttpError carrying that status and that body.
C5_OnlyTransientKindsRetried ==
    \A j \in 1 .. Len(trace) :
        IsGet(trace[j]) =>
            /\ j < Len(trace) => (Is429(trace[j].out) \/ IsTimeoutOut(trace[j].out))
            /\ IsNetErr(trace[j].out) =>
                 (j = Len(trace) /\ fpc = "done" /\ result = Raise("NetworkFailure"))
            /\ IsOtherStatus(trace[j].out) =>
                 /\ j = Len(trace)
                 /\ fpc = "done"
                 /\ result = RaiseHttp(trace[j].out.status, trace[j].out.body.text)

\* A 500 with body "err-b" on the second attempt, after one retried timeout.
C5_Witness ==
    /\ NumGets = 2
    /\ IsTimeoutOut(Outs[1])
    /\ Outs[2] = Response(500, TextBody("err-b"))
    /\ result = RaiseHttp(500, "err-b")
    /\ LastIsGet

\* C6: a fetch with max_retries = 3 never issues more than 3 GETs, never
\* accumulates more than 7 s of sleep, is never stuck before it is over, and
\* when it is over it has returned the JSON body or raised a WeatherAPIError.
C6_FetchBoundedAndTyped ==
    max_retries = 3 =>
        /\ NumGets <= 3
        /\ TotalSlept <= 7
        /\ fpc # "done" => ENABLED NextFetch
        /\ fpc = "done" =>
             \/ result.how = "return"
             \/ result.how = "raise" /\ result.exc = "WeatherAPIError"

---------------------------------------------------------------------------
(* Claims about get_coordinates, checked under SpecResolve.                *)

\* Decimal literals with the numbers they denote, written out by hand, and
\* whether each is a latitude (within [-90, 90]) and a longitude (within
\* [-180, 180]).
Literals ==
    { [s |-> <<"9">>,           v |-> JNum(9, 0),    lat |-> TRUE,  lon |-> TRUE],
      [s |-> <<"-", "9">>,      v |-> JNum(-9, 0),   lat |-> TRUE,  lon |-> TRUE],
      [s |-> <<".", "9">>,      v |-> JNum(9, 1),    lat |-> TRUE,  lon |-> TRUE],
      [s |-> <<"9", ".">>,      v |-> JNum(9, 0),    lat |-> TRUE,  lon |-> TRUE],
      [s |-> <<" ", "9">>,      v |-> JNum(9, 0),    lat |-> TRUE,  lon |-> TRUE],
      [s |-> <<"0">>,           v |-> JNum(0, 0),    lat |-> TRUE,  lon |-> TRUE],
      [s |-> <<"9", "0">>,      v |-> JNum(90, 0),   lat |-> TRUE,  lon |-> TRUE],
      [s |-> <<"0", "9">>,      v |-> JNum(9, 0),    lat |-> TRUE,  lon |-> TRUE],
      [s |-> <<"9", ".", "0">>, v |-> JNum(9, 0),    lat |-> TRUE,  lon |-> TRUE],
      [s |-> <<"-", "9", "0">>, v |-> JNum(-90, 0),  lat |-> TRUE,  lon |-> TRUE],
      [s |-> <<"9", "0", "9">>, v |-> JNum(909, 0),  lat |-> FALSE, lon |-> FALSE],
      [s |-> <<"9", "9">>,      v |-> JNum(99, 0),   lat |-> FALSE, lon |-> TRUE],
      [s |-> <<"9", ".", "9">>, v |-> JNum(99, 1),   lat |-> TRUE,  lon |-> TRUE],
      [s |-> <<"-", "9", "9">>, v |-> JNum(-99, 0),  lat |-> FALSE, lon |-> TRUE],
      [s |-> <<"9", "9", "9">>, v |-> JNum(999, 0),  lat |-> FALSE, lon |-> FALSE] }

\* The location is "lat,lon": two parts, both numbers, both in range.
IsLatLon(loc) ==
    /\ Contains(loc, ",")
    /\ LET parts == Split(loc, ",")
           lat == ParseFloat(parts[1])
           lon == ParseFloat(parts[2])
       IN  /\ Len(parts) = 2
           /\ lat.ok
           /\ lon.ok
           /\ Between(-90, lat.v, 90)
           /\ Between(-180, lon.v, 180)

\* The location starts with the literal a followed by the separator.
StartsWithLiteral(loc, a) ==
    Len(loc) > Len(a.s) /\ SubSeq(loc, 1, Len(a.s) + 1) = a.s \o <<",">>

\* No fetch was started: no lookup recorded, no fetch frame, no GET.
NoNetwork == lookups = <<>> /\ fpc = "idle" /\ trace = <<>>

\* C7: once get_coordinates has run on a location "lat,lon" whose two numbers
\* parse and are in range, it is over, has returned exactly (lat, lon) and no
\* network call was made; when the location was resolved before, the result
\* is the one of the previous resolution.  The last conjunct states the
\* result on literals whose values are written out by hand.
C7_CoordinatesParsedWithoutNetwork ==
    /\ IsLatLon(location) =>
          /\ rpc # "call" =>
                /\ rpc = "done"
                /\ rresult = Return(Tuple(ParseFloat(Split(location, ",")[1]).v,
                                          ParseFloat(Split(location, ",")[2]).v))
                /\ NoNetwork
          /\ (rpc # "call" /\ prev # NoResult) => rresult = prev
          /\ rpc = "call" => (prev = NoResult \/ prev.how = "return")
    /\ \A a \in Literals :
        (rpc # "call" /\ a.lat /\ StartsWithLiteral(location, a)) =>
            \A b \in Literals :
                (b.lon /\ location = a.s \o <<",">> \o b.s)
                => /\ rpc = "done"
                   /\ rresult = Return(Tuple(a.v, b.v))
                   /\ NoNetwork

\* "9,-9" resolved to (9, -9) with no lookup, for the second time.
C7_Witness ==
    /\ location = <<"9", ",", "-", "9">>
    /\ rpc = "done"
    /\ rresult = Return(Tuple(JNum(9, 0), JNum(-9, 0)))
    /\ prev = rresult
    /\ NoNetwork

\* The location contains a comma and its coordinate check does not succeed:
\* one of the first two parts is no number, or a number is out of range.
CommaButNoCoordinates(loc) ==
    /\ Contains(loc, ",")
    /\ LET parts == Split(loc, ",")
           lat == ParseFloat(parts[1])
           lon == ParseFloat(parts[2])
       IN  \/ ~lat.ok
           \/ ~lon.ok
           \/ ~Between(-90, lat.v, 90)
           \/ ~Between(-180, lon.v, 180)

\* Exactly one geocoding lookup was made, with the raw location as its query.
OneLookupOfRawLocation ==
    /\ Len(lookups) = 1
    /\ lookups[1].url = "GEO/direct"
    /\ lookups[1].params.q = location

\* The errors get_coordinates raises itself: "Location '...' not found."
\* (main.py:332) and "Failed to parse geocoding response: ..." (main.py:336).
IsResolutionError(r) ==
    r.how = "raise" /\ r.exc = "WeatherAPIError" /\ r.kind \in { "LocationNotFound", "GeocodeParse" }

\* The geocoding fetch returned and found nothing: its data is empty.
GeocodingFoundNothing ==
    result.how = "return" /\ result.value \in { JList(<<>>), JNull }

\* v is not a list whose first entry is a mapping with both lat and lon.
MalformedFirst(v) ==
    ~( /\ v.t = "list"
       /\ Len(v.items) > 0
       /\ v.items[1].t = "dict"
       /\ { "lat", "lon" } \subseteq DOMAIN v.items[1].d )

\* C8 as stated: for a location with a comma whose coordinate check fails,
\* get_coordinates does not raise from the check, makes exactly one geocoding
\* lookup with the raw string as the query, and fails with a resolution error
\* only if geocoding finds nothing.
C8_AsStated ==
    (CommaButNoCoordinates(location) /\ rpc # "call")
    => /\ OneLookupOfRawLocation
       /\ (rpc = "done" /\ IsResolutionError(rresult)) => GeocodingFoundNothing

\* C8 (amended): for a location with a comma whose coordinate check fails,
\* get_coordinates does not raise from the check (it never ends without a
\* lookup), makes exactly one geocoding lookup with the raw string as the
\* query, and fails with a resolution error only if geocoding finds nothing
\* ("not found") or returns a first result that is malformed.
C8_FallsThroughToGeocoding ==
    (CommaButNoCoordinates(location) /\ rpc # "call")
    => /\ OneLookupOfRawLocation
       /\ rpc = "done" =>
            /\ rresult = Raise("LocationNotFound") <=> GeocodingFoundNothing
            /\ rresult = Raise("GeocodeParse") =>
                 (result.how = "return" /\ ~GeocodingFoundNothing /\ MalformedFirst(result.value))
            /\ IsResolutionError(rresult) =>
                 (GeocodingFoundNothing \/ (result.how = "return" /\ MalformedFirst(result.value)))

\* "99,9" (latitude out of range) sent to geocoding, which finds nothing.
C8_Witness ==
    /\ location = <<"9", "9", ",", "9">>
    /\ rpc = "done"
    /\ OneLookupOfRawLocation
    /\ result = Return(JList(<<>>))
    /\ rresult = Raise("LocationNotFound")

\* The messages that contain "not found": "Location '...' not found."
\* (main.py:332) and "Location not found. Please check ..." (main.py:88).
MessageContainsNotFound(r) ==
    r.how = "raise" /\ r.exc = "WeatherAPIError" /\ r.kind \in { "LocationNotFound", "NotFound" }

\* C9: when the geocoding fetch returned an empty result list,
\* get_coordinates has failed with the error whose message contains
\* "not found" and has returned no coordinate.
C9_EmptyGeocodingIsNotFound ==
    (rpc = "done" /\ Len(lookups) = 1 /\ result = Return(JList(<<>>)))
    => /\ rresult = Raise("LocationNotFound")
       /\ MessageContainsNotFound(rresult)
       /\ rresult.how # "return"

\* The name "x", for which geocoding returns an empty list.
C9_Witness ==
    /\ location = <<"x">>
    /\ rpc = "done"
    /\ OneLookupOfRawLocation
    /\ result = Return(JList(<<>>))
    /\ rresult = Raise("LocationNotFound")

\* C10: when the geocoding fetch returned a non-empty result whose first
\* entry lacks lat or lon or is otherwise malformed, get_coordinates has
\* failed with the WeatherAPIError "Failed to parse geocoding response", with
\* no other exception type and no coordinate.
C10_MalformedGeocodingIsResolutionError ==
    ( /\ rpc = "done"
      /\ Len(lookups) = 1
      /\ result.how = "return"
      /\ result.value.t = "list"
      /\ Len(result.value.items) > 0
      /\ MalformedFirst(result.value) )
    => rresult = Raise("GeocodeParse")

\* A latitude and a longitude within the ranges of a Coordinate.
IsCoordinate(v) ==
    /\ v.t = "tuple"
    /\ v.lat.t = "num"
    /\ v.lon.t = "num"
    /\ Between(-90, v.lat, 90)
    /\ Between(-180, v.lon, 180)

\* C11: every coordinate get_coordinates returns, parsed from the location
\* or taken from the first geocoding result, has its latitude in [-90, 90]
\* and its longitude in [-180, 180].
C11_ReturnedCoordinatesInRange ==
    (rpc = "done" /\ rresult.how = "return") => IsCoordinate(rresult.value)

---------------------------------------------------------------------------
(* Python floats.  A float is an IEEE 754 binary64 number: a sign and a    *)
(* 53-bit significand m scaled by a power of two, value = m * 2^e.  Every  *)
(* operation gives the representable number nearest to the exact result,   *)
(* ties to the even significand.  Significands do not fit the integers of  *)
(* the model checker, so naturals are written as sequences of limbs, least *)
(* significant first.  Infinities, NaN and subnormal numbers are outside   *)
(* the values explored.                                                    *)

\* The base of the limbs of a natural number.
LimbBase == 32768
\* The number of bits of a significand.
SignificandBits == 53

RECURSIVE NatTrim(_)
\* x without its leading zero limbs
NatTrim(x) == IF x # <<>> /\ x[Len(x)] = 0 THEN NatTrim(SubSeq(x, 1, Len(x) - 1)) ELSE x

\* the natural number n < LimbBase^2 as limbs
NatOf(n) == NatTrim(<<n % LimbBase, n \div LimbBase>>)

RECURSIVE NatMulSmall(_, _, _)
\* x * k + carry, for k < LimbBase
NatMulSmall(x, k, carry) ==
    IF x = <<>> THEN NatTrim(<<carry>>)
    ELSE <<(Head(x) * k + carry) % LimbBase>> \o NatMulSmall(Tail(x), k, (Head(x) * k + carry) \div LimbBase)

RECURSIVE NatDivMod(_, _)
\* quotient and remainder of x by d, for 0 < d <= LimbBase
NatDivMod(x, d) ==
    IF x = <<>> THEN [q |-> <<>>, r |-> 0]
    ELSE LET hi == NatDivMod(Tail(x), d)
             t == hi.r * LimbBase + Head(x)
         IN  [q |-> NatTrim(<<t \div d>> \o hi.q), r |-> t % d]

RECURSIVE NatAdd(_, _, _)
\* x + y + carry
NatAdd(x, y, carry) ==
    IF x = <<>> /\ y = <<>> THEN NatTrim(<<carry>>)
    ELSE LET a == IF x = <<>> THEN 0 ELSE Head(x)
             b == IF y = <<>> THEN 0 ELSE Head(y)
         IN  <<(a + b + carry) % LimbBase>>
             \o NatAdd(IF x = <<>> THEN x ELSE Tail(x), IF y = <<>> THEN y ELSE Tail(y),
                       (a + b + carry) \div LimbBase)

RECURSIVE NatSubRaw(_, _, _)
NatSubRaw(x, y, borrow) ==
    IF x = <<>> THEN <<>>
    ELSE LET b == (IF y = <<>> THEN 0 ELSE Head(y)) + borrow
         IN  <<(Head(x) + LimbBase - b) % LimbBase>>
             \o NatSubRaw(Tail(x), IF y = <<>> THEN y ELSE Tail(y), IF Head(x) < b THEN 1 ELSE 0)
\* x - y, for x >= y
NatSub(x, y) == NatTrim(NatSubRaw(x, y, 0))

RECURSIVE NatLess(_, _)
\* x < y, for x and y without leading zeros
NatLess(x, y) ==
    IF Len(x) # Len(y) THEN Len(x) < Len(y)
    ELSE IF x = <<>> THEN FALSE
    ELSE IF x[Len(x)] # y[Len(y)] THEN x[Len(x)] < y[Len(y)]
    ELSE NatLess(SubSeq(x, 1, Len(x) - 1), SubSeq(y, 1, Len(y) - 1))

RECURSIVE SmallBits(_)
\* the number of bits of n
SmallBits(n) == IF n = 0 THEN 0 ELSE 1 + SmallBits(n \div 2)
NatBits(x) == IF x = <<>> THEN 0 ELSE 15 * (Len(x) - 1) + SmallBits(x[Len(x)])

RECURSIVE NatShl(_, _)
\* x * 2^k
NatShl(x, k) ==
    IF k = 0 THEN x
    ELSE IF k >= 15 THEN NatShl(<<0>> \o x, k - 15)
    ELSE NatMulSmall(x, 2 ^ k, 0)

RECURSIVE NatShr(_, _)
\* x \div 2^k, with sticky: some bit shifted out was one
NatShr(x, k) ==
    IF k = 0 \/ x = <<>> THEN [q |-> x, sticky |-> FALSE]
    ELSE IF k >= 15
    THEN [q |-> NatShr(Tail(x), k - 15).q, sticky |-> NatShr(Tail(x), k - 15).sticky \/ Head(x) # 0]
    ELSE [q |-> NatDivMod(x, 2 ^ k).q, sticky |-> NatDivMod(x, 2 ^ k).r # 0]

RECURSIVE NatDigits(_)
\* the decimal digits of x, most significant first ("" for zero)
NatDigits(x) ==
    IF x = <<>> THEN <<>>
    ELSE LET Digits(d) == Append(NatDigits(d.q), <<"0", "1", "2", "3", "4", "5", "6", "7", "8", "9">>[d.r + 1])
         IN  Digits(NatDivMod(x, 10))

\* x \div 2^k rounded to the nearest natural, ties to even; sticky says the
\* exact value lies above x.
NatRoundShr(x, k, sticky) ==
    IF k = 0 THEN x
    ELSE LET \* low: x shifted by k - 1 bits; half: low halved, its remainder the guard bit
             Nearest(low, half) ==
                 IF half.r = 1 /\ (low.sticky \/ sticky \/ NatDivMod(half.q, 2).r = 1)
                 THEN NatAdd(half.q, <<>>, 1)
                 ELSE half.q
             Halved(low) == Nearest(low, NatDivMod(low.q, 2))
         IN  Halved(NatShr(x, k - 1))

\* The float nearest to (-1)^s * (n + f) * 2^e, where 0 <= f < 1 and f > 0
\* exactly when sticky; n has more than SignificandBits + 1 bits when sticky.
FloatRound(s, n, e, sticky) ==
    IF n = <<>> THEN [s |-> s, m |-> <<>>, e |-> 0]
    ELSE IF NatBits(n) <= SignificandBits
    THEN [s |-> s, m |-> NatShl(n, SignificandBits - NatBits(n)), e |-> e - (SignificandBits - NatBits(n))]
    ELSE LET Kept(k, m) ==
                 IF NatBits(m) > SignificandBits
                 THEN [s |-> s, m |-> NatDivMod(m, 2).q, e |-> e + k + 1]
                 ELSE [s |-> s, m |-> m, e |-> e + k]
         IN  Kept(NatBits(n) - SignificandBits, NatRoundShr(n, NatBits(n) - SignificandBits, sticky))

\* Extra bits kept by a division before rounding.
DivisionBits == 75

\* The float of a JSON number or literal m / 10^e (e <= 4): float("...").
FloatOf(x) ==
    LET Quotient(s, d) == FloatRound(s, d.q, 0 - DivisionBits, d.r # 0)
        Nearest(s, mag) ==
            IF x.e = 0 THEN FloatRound(s, mag, 0, FALSE)
            ELSE Quotient(s, NatDivMod(NatShl(mag, DivisionBits), 10 ^ x.e))
    IN  Nearest(IF x.m < 0 THEN 1 ELSE 0, NatOf(IF x.m < 0 THEN 0 - x.m ELSE x.m))

\* a * k for an int k with 0 < k < LimbBase: float * int
FloatMulInt(a, k) == FloatRound(a.s, NatMulSmall(a.m, k, 0), a.e, FALSE)

\* a / k for an int k with 0 < k < LimbBase: float / int
FloatDivInt(a, k) ==
    LET Quotient(d) == FloatRound(a.s, d.q, a.e - DivisionBits, d.r # 0)
    IN  Quotient(NatDivMod(NatShl(a.m, DivisionBits), k))

\* a + b: the exact sum of the two aligned significands, rounded.  The sum
\* of a number and its opposite is +0.0.
FloatAdd(a, b) ==
    IF a.m = <<>> THEN (IF b.m = <<>> THEN [s |-> IF a.s = 1 /\ b.s = 1 THEN 1 ELSE 0, m |-> <<>>, e |-> 0] ELSE b)
    ELSE IF b.m = <<>> THEN a
    ELSE LET \* x and y: the significands of a and b at the common exponent e
             Sum(e, x, y) ==
                 IF a.s = b.s THEN FloatRound(a.s, NatAdd(x, y, 0), e, FALSE)
                 ELSE IF NatLess(x, y) THEN FloatRound(b.s, NatSub(y, x), e, FALSE)
                 ELSE IF NatLess(y, x) THEN FloatRound(a.s, NatSub(x, y), e, FALSE)
                 ELSE [s |-> 0, m |-> <<>>, e |-> 0]
             Aligned(e) == Sum(e, NatShl(a.m, a.e - e), NatShl(b.m, b.e - e))
         IN  Aligned(IF a.e < b.e THEN a.e ELSE b.e)

\* a - b
FloatSub(a, b) == FloatAdd(a, [b EXCEPT !.s = 1 - b.s])

RECURSIVE Zeros(_)
Zeros(n) == IF n <= 0 THEN <<>> ELSE <<"0">> \o Zeros(n - 1)

\* f"{a:.{d}f}": the decimal with d places nearest to the exact value of a,
\* ties to even, with the sign of a.
FloatFormat(a, d) ==
    LET Decimal(digits) ==
            (IF a.s = 1 THEN <<"-">> ELSE <<>>)
            \o SubSeq(digits, 1, Len(digits) - d)
            \o (IF d > 0 THEN <<".">> \o SubSeq(digits, Len(digits) - d + 1, Len(digits)) ELSE <<>>)
        Padded(digits) == Decimal(Zeros(d + 1 - Len(digits)) \o digits)
        \* a.m * 10^d * 2^a.e, to the nearest natural
        Units(scaled) ==
            Padded(NatDigits(IF a.e >= 0 THEN NatShl(scaled, a.e) ELSE NatRoundShr(scaled, 0 - a.e, FALSE)))
    IN  Units(NatMulSmall(a.m, 10 ^ d, 0))

---------------------------------------------------------------------------
(* The formatters (main.py:113-226).  A text is a record of its first      *)
(* words, of the temperatures in it (in the order of the calls of          *)
(* format_temperature), of its other fields and of the payload it was      *)
(* built from.  A JSON number without a fraction is an int, one with a     *)
(* fraction a float.                                                       *)

Text(message, detail) == [text |-> message, detail |-> detail]

\* `key in x` (main.py:125, 164, 194)
In(key, x) ==
    CASE x.t = "dict" -> Got(key \in DOMAIN x.d)
      [] x.t = "list" -> Got(\E i \in 1 .. Len(x.items) : x.items[i] = JStr(key))
      [] OTHER        -> Raised("TypeError")

\* Mutant: x[key] in place of x.get(key, default).
DictGetStrict(x, key, default) ==
    IF x.t = "dict" THEN (IF key \in DOMAIN x.d THEN Got(x.d[key]) ELSE Raised("KeyError"))
    ELSE Raised("AttributeError")
\* x.get(key, default)
DictGet(x, key, default) ==
    IF x.t = "dict" THEN Got(IF key \in DOMAIN x.d THEN x.d[key] ELSE default)
    ELSE Raised("AttributeError")

\* Mutant: the whole list.
FirstEightUnbounded(x) == IF x.t = "list" THEN Got(x) ELSE Raised("TypeError")
\* x[:8] (main.py:168)
FirstEight(x) ==
    IF x.t = "list" THEN Got(JList(SubSeq(x.items, 1, IF Len(x.items) < 8 THEN Len(x.items) ELSE 8)))
    ELSE Raised("TypeError")

\* The first failure of a sequence of evaluations, or `value` when all
\* succeeded.
FirstFailure(steps, value) ==
    IF \E i \in 1 .. Len(steps) : ~steps[i].ok
    THEN steps[CHOOSE i \in 1 .. Len(steps) : ~steps[i].ok /\ \A j \in 1 .. i - 1 : steps[j].ok]
    ELSE Got(value)

RECURSIVE TrimZeros(_)
\* the places of a float's repr: trailing zeros dropped, one place kept
TrimZeros(places) ==
    IF Len(places) > 1 /\ places[Len(places)] = "0" THEN TrimZeros(SubSeq(places, 1, Len(places) - 1))
    ELSE places

\* str(x) for a number x: the digits of an int, the shortest decimal of a
\* float.
NumStr(x) ==
    LET Decimal(digits) ==
            (IF x.m < 0 THEN <<"-">> ELSE <<>>)
            \o SubSeq(digits, 1, Len(digits) - x.e)
            \o (IF x.e > 0 THEN <<".">> \o TrimZeros(SubSeq(digits, Len(digits) - x.e + 1, Len(digits))) ELSE <<>>)
        Padded(mag) == Decimal(Zeros(x.e + 1 - Len(mag)) \o mag)
    IN  Padded(NatDigits(NatOf(IF x.m < 0 THEN 0 - x.m ELSE x.m)))

\* f"{x}": a number as its characters, a string as itself, a list or a dict
\* as its repr.
Str(x) ==
    CASE x.t = "num"  -> NumStr(x)
      [] x.t = "str"  -> x.s
      [] x.t = "null" -> <<"N", "o", "n", "e">>
      [] OTHER        -> [repr |-> x]

\* f"{x:.{d}f}": a float or an int with d places; ValueError for a str,
\* TypeError for any other value.
Fixed(x, d) ==
    CASE x.t = "num" -> Got(FloatFormat(FloatOf(x), d))
      [] x.t = "str" -> Raised("ValueError")
      [] OTHER       -> Raised("TypeError")

\* The literals 273.15 and 32 (main.py:116, 120).
Literal27315 == FloatOf(JNum(27315, 2))
Literal32 == FloatOf(JNum(32, 0))
\* kelvin - 273.15 (main.py:116, 120)
Celsius(kelvin) == FloatSub(FloatOf(kelvin), Literal27315)

\* The exception of format_temperature(kelvin, unit), "" when it returns:
\* the arithmetic on a value that is not a number raises TypeError, and so
\* does the format of a value that is neither a number nor a str; the
\* format of a str raises ValueError.
TemperatureError(kelvin, unit) ==
    CASE kelvin.t = "num"                     -> ""
      [] kelvin.t = "str" /\ unit = "kelvin"  -> "ValueError"
      [] OTHER                                -> "TypeError"

\* format_temperature (main.py:113-120): the branch on the unit, any unit
\* other than fahrenheit and kelvin being celsius; float arithmetic,
\* ((kelvin - 273.15) * 9) / 5 + 32 from left to right; the result rendered
\* with one place and followed by the suffix.
format_temperature(kelvin, unit) ==
    IF TemperatureError(kelvin, unit) # "" THEN Raised(TemperatureError(kelvin, unit))
    ELSE IF unit = "fahrenheit"
    THEN Got(FloatFormat(FloatAdd(FloatDivInt(FloatMulInt(Celsius(kelvin), 9), 5), Literal32), 1)
             \o <<"°", "F">>)
    ELSE IF unit = "kelvin" THEN Got(FloatFormat(FloatOf(kelvin), 1) \o <<"K">>)
    ELSE Got(FloatFormat(Celsius(kelvin), 1) \o <<"°", "C">>)

\* The scale a unit selects (main.py:115-119).
ScaleOf(unit) == CASE unit = "fahrenheit" -> "F" [] unit = "kelvin" -> "K" [] OTHER -> "C"
\* A unit that selects the scale.
UnitOf(scale) == CASE scale = "F" -> "fahrenheit" [] scale = "K" -> "kelvin" [] OTHER -> "celsius"

\* A temperature in a text: the value and the scale of a call of
\* format_temperature that returned; its characters are Rendered(temp).
Rendered(temp) == format_temperature(temp.kelvin, UnitOf(temp.scale)).v

\* format_temperature(main.get(key, 0), unit) (main.py:133-136, 180-181)
TemperatureOf(main, key, unit) ==
    LET Checked(temp) ==
            IF ~temp.ok THEN temp
            ELSE IF TemperatureError(temp.v, unit) # "" THEN Raised(TemperatureError(temp.v, unit))
            ELSE Got([kelvin |-> temp.v, scale |-> ScaleOf(unit)])
    IN  Checked(DictGet(main, key, JNum(0, 0)))
TempOf(main, unit) == TemperatureOf(main, "temp", unit)

\* f"{x.get(key, default)}"
Shown(x, key, default) ==
    LET Written(value) == IF value.ok THEN Got(Str(value.v)) ELSE value
    IN  Written(DictGet(x, key, default))

\* x[key][0] if x.get(key) else {} (main.py:129, 176)
FirstOrEmpty(x, key) ==
    LET Chosen(value) ==
            IF ~value.ok THEN value
            ELSE IF ~Truthy(value.v) THEN Got(JDict(<<>>))
            ELSE Index0(value.v)
    IN  Chosen(DictGet(x, key, JNull))

\* datetime.fromtimestamp(x.get('dt', 0)).strftime(...): the local time of
\* the timestamp; TypeError when it is not a number.
TimeOf(x) ==
    LET Local(dt) ==
            IF ~dt.ok THEN dt
            ELSE IF dt.v.t # "num" THEN Raised("TypeError")
            ELSE Got([fromtimestamp |-> dt.v])
    IN  Local(DictGet(x, "dt", JNum(0, 0)))

\* The line added `if data.get(key)` (main.py:152-155): data[key].get('1h', 0);
\* no line is written <<>>.
OneHour(data, key) ==
    LET Line(amount) == IF ~amount.ok THEN amount ELSE Got(<<amount.v>>)
        Added(value) ==
            IF ~value.ok THEN value
            ELSE IF ~Truthy(value.v) THEN Got(<<>>)
            ELSE Line(Shown(value.v, "1h", JNum(0, 0)))
    IN  Added(DictGet(data, key, JNull))

\* format_weather_response (main.py:123-159).
format_weather_response(data, unit) ==
    IF ~Truthy(data) THEN Got(Text("No weather data available.", <<>>))
    ELSE IF ~In("main", data).ok THEN In("main", data)
    ELSE IF ~In("main", data).v THEN Got(Text("No weather data available.", <<>>))
    ELSE IF ~GetKey(data, "main").ok THEN GetKey(data, "main")
    ELSE LET \* parts: weather, wind, clouds; temps: temp, feels_like, temp_min,
             \* temp_max; fields: the other values written, in the order of
             \* their evaluation
             Written(parts, temps, fields) ==
                 FirstFailure(parts \o temps \o fields,
                              Text("Weather for",
                                   [temps |-> [i \in 1 .. Len(temps) |-> temps[i].v],
                                    fields |-> [name |-> fields[1].v, time |-> fields[2].v,
                                                condition |-> fields[3].v, description |-> fields[4].v,
                                                humidity |-> fields[5].v, pressure |-> fields[6].v,
                                                speed |-> fields[7].v, deg |-> fields[8].v,
                                                cloudiness |-> fields[9].v, rain |-> fields[10].v,
                                                snow |-> fields[11].v],
                                    data |-> data]))
             Parts(main, weather, wind, clouds) ==
                 Written(<<weather, wind, clouds>>,
                         <<TemperatureOf(main, "temp", unit), TemperatureOf(main, "feels_like", unit),
                           TemperatureOf(main, "temp_min", unit), TemperatureOf(main, "temp_max", unit)>>,
                         <<Shown(data, "name", JStr("Unknown location")),
                           TimeOf(data),
                           Shown(weather.v, "main", JStr("Unknown")),
                           Shown(weather.v, "description", JStr("No description")),
                           Shown(main, "humidity", JNum(0, 0)),
                           Shown(main, "pressure", JNum(0, 0)),
                           Shown(wind.v, "speed", JNum(0, 0)),
                           Shown(wind.v, "deg", JNum(0, 0)),
                           Shown(clouds.v, "all", JNum(0, 0)),
                           OneHour(data, "rain"),
                           OneHour(data, "snow")>>)
         IN  Parts(GetKey(data, "main").v, FirstOrEmpty(data, "weather"),
                   DictGet(data, "wind", JDict(<<>>)), DictGet(data, "clouds", JDict(<<>>)))

\* Mutant: the probability rendered with one place.
RainProbabilityOnePlace(forecast) ==
    LET Percent(pop) ==
            IF ~pop.ok THEN pop
            ELSE CASE pop.v.t = "num" -> Got(FloatFormat(FloatMulInt(FloatOf(pop.v), 100), 1) \o <<"%">>)
                   [] pop.v.t = "str" -> Raised("ValueError")
                   [] OTHER           -> Raised("TypeError")
    IN  Percent(DictGet(forecast, "pop", JNum(0, 0)))
\* f"{forecast.get('pop', 0) * 100:.0f}%" (main.py:185): the product rendered
\* with no place; a str times 100 is a str, which has no format f.
RainProbability(forecast) ==
    LET Percent(pop) ==
            IF ~pop.ok THEN pop
            ELSE CASE pop.v.t = "num" -> Got(FloatFormat(FloatMulInt(FloatOf(pop.v), 100), 0) \o <<"%">>)
                   [] pop.v.t = "str" -> Raised("ValueError")
                   [] OTHER           -> Raised("TypeError")
    IN  Percent(DictGet(forecast, "pop", JNum(0, 0)))

\* The temperature of one entry of the forecast loop (main.py:175, 180).
ForecastTemp(forecast, unit) ==
    LET Temp(main) == IF ~main.ok THEN main ELSE TempOf(main.v, unit)
    IN  Temp(DictGet(forecast, "main", JDict(<<>>)))

\* One pass of the forecast loop (main.py:173-186): the block of an entry.
ForecastBlock(forecast, unit) ==
    LET \* parts: time, main, weather, wind; temps: temp, feels_like; fields: the
        \* other values written
        Block(parts, temps, fields) ==
            FirstFailure(parts \o temps \o fields,
                         [temps |-> <<temps[1].v, temps[2].v>>,
                          block |-> [time |-> parts[1].v, condition |-> fields[1].v,
                                     description |-> fields[2].v, humidity |-> fields[3].v,
                                     speed |-> fields[4].v, pop |-> fields[5].v]])
        Parts(main, weather, wind) ==
            Block(<<TimeOf(forecast), main, weather, wind>>,
                  <<ForecastTemp(forecast, unit), TemperatureOf(main.v, "feels_like", unit)>>,
                  <<Shown(weather.v, "main", JStr("Unknown")),
                    Shown(weather.v, "description", JStr("No description")),
                    Shown(main.v, "humidity", JNum(0, 0)),
                    Shown(wind.v, "speed", JNum(0, 0)),
                    RainProbability(forecast)>>)
    IN  Parts(DictGet(forecast, "main", JDict(<<>>)), FirstOrEmpty(forecast, "weather"),
              DictGet(forecast, "wind", JDict(<<>>)))

RECURSIVE Flat(_)
Flat(seqs) == IF seqs = <<>> THEN <<>> ELSE Head(seqs) \o Flat(Tail(seqs))

\* format_forecast_response (main.py:162-189): the header, then one block
\* for each of the first eight entries of data["list"].
format_forecast_response(data, unit) ==
    IF ~Truthy(data) THEN Got(Text("No forecast data available.", <<>>))
    ELSE IF ~In("list", data).ok THEN In("list", data)
    ELSE IF ~In("list", data).v THEN Got(Text("No forecast data available.", <<>>))
    ELSE LET \* parts: city, list, forecasts, name, coord, lat, lon
             Blocks(parts, blocks) ==
                 FirstFailure(parts \o blocks,
                              Text("5-Day Forecast for",
                                   [temps |-> Flat([i \in 1 .. Len(blocks) |-> blocks[i].v.temps]),
                                    fields |-> [name |-> parts[4].v, lat |-> parts[6].v, lon |-> parts[7].v,
                                                blocks |-> [i \in 1 .. Len(blocks) |-> blocks[i].v.block]],
                                    data |-> data]))
             Header(city, list, forecasts, coord) ==
                 Blocks(<<city, list, forecasts, Shown(city.v, "name", JStr("Unknown location")), coord,
                          Shown(coord.v, "lat", JNum(0, 0)), Shown(coord.v, "lon", JNum(0, 0))>>,
                        IF forecasts.ok
                        THEN [i \in 1 .. Len(forecasts.v.items) |-> ForecastBlock(forecasts.v.items[i], unit)]
                        ELSE <<>>)
             Entries(city, list) == Header(city, list, FirstEight(list.v), DictGet(city.v, "coord", JDict(<<>>)))
         IN  Entries(DictGet(data, "city", JDict(<<>>)), DictGet(data, "list", JList(<<>>)))

\* Mutant: every index labelled as the first.
aqi_labels_all_good(aqi_level) ==
    IF aqi_level.t \in {"list", "dict"} THEN Raised("TypeError") ELSE Got("Good")
\* aqi_labels.get(aqi_level, 'Unknown') (main.py:201-211): the label of a
\* number equal to one of the keys 1..5 (2.0 == 2), 'Unknown' for any other
\* hashable value, TypeError for a list or a dict.
aqi_labels(aqi_level) ==
    IF aqi_level.t \in {"list", "dict"} THEN Raised("TypeError")
    ELSE IF aqi_level.t = "num" /\ \E k \in 1 .. 5 : aqi_level.m = k * 10 ^ aqi_level.e
    THEN Got(<<"Good", "Fair", "Moderate", "Poor", "Very Poor">>[
                 CHOOSE k \in 1 .. 5 : aqi_level.m = k * 10 ^ aqi_level.e])
    ELSE Got("Unknown")

\* The keys of the components, in the order of their lines (main.py:214-221).
ComponentKeys == <<"co", "no", "no2", "o3", "so2", "pm2_5", "pm10", "nh3">>

\* format_air_quality_response (main.py:192-226): no unit, no temperature.
format_air_quality_response(data) ==
    IF ~Truthy(data) THEN Got(Text("No air quality data available.", <<>>))
    ELSE IF ~In("list", data).ok THEN In("list", data)
    ELSE IF ~In("list", data).v THEN Got(Text("No air quality data available.", <<>>))
    ELSE IF ~GetKey(data, "list").ok THEN GetKey(data, "list")
    ELSE IF ~Truthy(GetKey(data, "list").v) THEN Got(Text("No air quality data available.", <<>>))
    ELSE LET \* parts: aqi_data, main, components, aqi_level, label, time
             Written(parts, amounts) ==
                 FirstFailure(parts \o amounts,
                              Text("Air Quality Index (AQI)",
                                   [temps |-> <<>>,
                                    fields |-> [aqi |-> Str(parts[4].v), label |-> parts[5].v, time |-> parts[6].v,
                                                components |-> [i \in 1 .. Len(amounts) |-> amounts[i].v]],
                                    data |-> data]))
             Amount(value) == IF value.ok THEN Fixed(value.v, 2) ELSE value
             Levels(aqi_data, main, components, aqi_level) ==
                 Written(<<aqi_data, main, components, aqi_level, aqi_labels(aqi_level.v), TimeOf(aqi_data.v)>>,
                         [i \in 1 .. Len(ComponentKeys) |->
                             Amount(DictGet(components.v, ComponentKeys[i], JNum(0, 0)))])
             Entry(aqi_data, main) ==
                 Levels(aqi_data, main, DictGet(aqi_data.v, "components", JDict(<<>>)),
                        DictGet(main.v, "aqi", JNum(0, 0)))
             FirstEntry(aqi_data) == Entry(aqi_data, DictGet(aqi_data.v, "main", JDict(<<>>)))
         IN  FirstEntry(Index0(GetKey(data, "list").v))

---------------------------------------------------------------------------
(* list_tools and call_tool (main.py:229-429).                             *)

\* A str argument, as a sequence of characters.
PyStr(s) == [t |-> "pystr", s |-> s]

UnitsSchema == [type |-> "string", enum |-> <<"celsius", "fahrenheit", "kelvin">>, default |-> "celsius"]
LocationSchema == [type |-> "string"]

\* Mutant: the air-quality tool declared with units as well.
list_tools_units_everywhere ==
    [i \in 1 .. 3 |->
        [name |-> <<"get_current_weather", "get_weather_forecast", "get_air_quality">>[i],
         inputSchema |-> [type |-> "object",
                          properties |-> [location |-> LocationSchema, units |-> UnitsSchema],
                          required |-> <<"location">>]]]
\* The list list_tools builds and returns (main.py:236-297), descriptions
\* left out.
list_tools ==
    << [name |-> "get_current_weather",
        inputSchema |-> [type |-> "object",
                         properties |-> [location |-> LocationSchema, units |-> UnitsSchema],
                         required |-> <<"location">>]],
       [name |-> "get_weather_forecast",
        inputSchema |-> [type |-> "object",
                         properties |-> [location |-> LocationSchema, units |-> UnitsSchema],
                         required |-> <<"location">>]],
       [name |-> "get_air_quality",
        inputSchema |-> [type |-> "object",
                         properties |-> [location |-> LocationSchema],
                         required |-> <<"location">>]] >>

\* return [TextContent(type="text", text=...)]
TextResult(text) == Return(<<[type |-> "text", text |-> text]>>)

KeyNotSetText ==
    Text("Error: OPENWEATHER_API_KEY environment variable is not set. Please configure your API key in the .env file.",
         <<>>)
LocationRequiredText == Text("Error: Location parameter is required.", <<>>)
\* f"Error: Unknown tool '{name}'"
UnknownToolText(name) == Text("Error: Unknown tool", name)
\* f"Error: {str(e)}" for a WeatherAPIError e
ErrorText(e) == Text("Error", [kind |-> e.kind, status |-> e.status, text |-> e.text])
\* f"Unexpected error: {str(e)}" for any other exception e
UnexpectedText(e) == Text("Unexpected error", e.exc)

\* Mutant: the credential test left out.
KeyConfiguredAlways(key) == TRUE
\* `not OPENWEATHER_API_KEY` is false (main.py:352); an unset variable (None)
\* and an empty one are both written "".
KeyConfigured(key) == key # ""

\* Mutant: the location taken without strip().
ArgLocationNoStrip(arguments) ==
    IF arguments.t # "dict" THEN Raised("AttributeError")
    ELSE IF "location" \notin DOMAIN arguments.d THEN Got(<<>>)
    ELSE IF arguments.d.location.t # "pystr" THEN Raised("AttributeError")
    ELSE Got(arguments.d.location.s)
\* arguments.get("location", "").strip() (main.py:363): AttributeError when
\* arguments has no get or the location has no strip.
ArgLocation(arguments) ==
    IF arguments.t # "dict" THEN Raised("AttributeError")
    ELSE IF "location" \notin DOMAIN arguments.d THEN Got(Strip(<<>>))
    ELSE IF arguments.d.location.t # "pystr" THEN Raised("AttributeError")
    ELSE Got(Strip(arguments.d.location.s))

\* arguments.get("units", "celsius") (main.py:367)
ArgUnits(arguments) ==
    IF "units" \in DOMAIN arguments.d THEN arguments.d.units ELSE "celsius"

\* The frame of a new invocation.
Frame(name, arguments) ==
    [IdleCall EXCEPT !.pc = "start", !.name = name, !.arguments = arguments]

\* The invocation ends: it returns a value or an exception leaves it.
Finish(c, r) == [c EXCEPT !.pc = "done", !.stage = "none", !.ret = r]

\* The two handlers of call_tool (main.py:424-429).
Caught(e) ==
    IF e.exc = "WeatherAPIError" THEN TextResult(ErrorText(e)) ELSE TextResult(UnexpectedText(e))

\* Calling fetch_with_retry(client, url, params) from call_tool or from
\* get_coordinates: max_retries is left at its default, which is positive, so
\* the first evaluation of the for statement enters the loop and the frame
\* is suspended in client.get.
EnterFetch(c, stage, request) ==
    [c EXCEPT !.pc = ForLoop(0, DefaultMaxRetries).pc,
              !.stage = stage,
              !.req = request,
              !.attempt = 0,
              !.fetches = Append(@, request)]

ToolNames == { "get_current_weather", "get_weather_forecast", "get_air_quality" }

\* Mutant: every name taken for a tool.
KnownToolAny(name) == TRUE
\* One of the three branches on name is taken (main.py:375, 390, 405).
KnownTool(name) == name \in ToolNames

\* url of the branch taken (main.py:377, 392, 407).
Endpoint(name) ==
    CASE name = "get_current_weather"  -> "BASE/weather"
      [] name = "get_weather_forecast" -> "BASE/forecast"
      [] OTHER                         -> "BASE/air_pollution"

\* Mutant: every payload handed to the current-weather formatter.
FormatterOfAlwaysWeather(name) == "format_weather_response"
\* The formatter called in the branch taken (main.py:385, 400, 415).
FormatterOf(name) ==
    CASE name = "get_current_weather"  -> "format_weather_response"
      [] name = "get_weather_forecast" -> "format_forecast_response"
      [] OTHER                         -> "format_air_quality_response"

ApplyFormatter(formatter, data, units) ==
    CASE formatter = "format_weather_response"  -> format_weather_response(data, units)
      [] formatter = "format_forecast_response" -> format_forecast_response(data, units)
      [] OTHER                                  -> format_air_quality_response(data)

\* Mutant: the unit handed to the provider as well.
DataRequestWithUnits(c) ==
    [url |-> Endpoint(c.name),
     params |-> [lat |-> c.lat_lon.lat, lon |-> c.lat_lon.lon, appid |-> OPENWEATHER_API_KEY,
                 units |-> c.units]]
\* url and params of the data request (main.py:377-382, 392-397, 407-412).
DataRequest(c) ==
    [url |-> Endpoint(c.name),
     params |-> [lat |-> c.lat_lon.lat, lon |-> c.lat_lon.lon, appid |-> OPENWEATHER_API_KEY]]

\* The branch on name (main.py:375-422), up to the suspension in the fetch.
Dispatch(c) ==
    IF KnownTool(c.name) THEN EnterFetch(c, "data", DataRequest(c))
    ELSE Finish(c, TextResult(UnknownToolText(c.name)))

\* Mutant: a failed resolution replaced by the coordinates (0, 0).
AfterCoordinatesDefaulting(c, r) ==
    IF r.how = "raise" THEN Dispatch([c EXCEPT !.lat_lon = Tuple(JNum(0, 0), JNum(0, 0))])
    ELSE Dispatch([c EXCEPT !.lat_lon = r.value])
\* `lat, lon = await get_coordinates(location, client)` has ended with r
\* (main.py:372): an exception goes to the handlers, coordinates to the
\* branch on name.
AfterCoordinates(c, r) ==
    IF r.how = "raise" THEN Finish(c, Caught(r))
    ELSE Dispatch([c EXCEPT !.lat_lon = r.value])

\* `data = await fetch_with_retry(client, url, params)` has ended with r
\* (main.py:384-388, 399-403, 414-418): an exception of the fetch or of the
\* formatter goes to the handlers, the formatted text is returned.
AfterData(c, r) ==
    IF r.how = "raise" THEN Finish(c, Caught(r))
    ELSE LET text == ApplyFormatter(FormatterOf(c.name), r.value, c.units)
         IN  IF text.ok THEN Finish(c, TextResult(text.v)) ELSE Finish(c, Caught(Escape(text.exc)))

\* The fetch of the invocation has ended with r: control returns to its
\* caller, get_coordinates (main.py:330) or call_tool.
FetchEnded(c, r) ==
    IF c.stage = "geocode" THEN AfterCoordinates(c, AfterGeocode(r)) ELSE AfterData(c, r)

\* call_tool from its entry to its first suspension or its end
\* (main.py:351-372).  The location is read before the try statement.
call_tool(name, arguments) ==
    IF ~KeyConfigured(OPENWEATHER_API_KEY) THEN Finish(Frame(name, arguments), TextResult(KeyNotSetText))
    ELSE IF ~ArgLocation(arguments).ok
    THEN Finish(Frame(name, arguments), Escape(ArgLocation(arguments).exc))
    ELSE IF ArgLocation(arguments).v = <<>>
    THEN Finish(Frame(name, arguments), TextResult(LocationRequiredText))
    ELSE LET c == [Frame(name, arguments) EXCEPT !.location = ArgLocation(arguments).v,
                                                 !.units = ArgUnits(arguments)]
             parsed == ParseCoordinates(c.location)
         IN  CASE parsed.how = "return" -> AfterCoordinates(c, Return(parsed.v))
               [] parsed.how = "raise"  -> AfterCoordinates(c, Escape(parsed.exc))
               [] OTHER                 -> EnterFetch(c, "geocode", GeocodeRequest(c.location))

\* await client.get(...) of the frame answered by o, and what follows up to
\* the next suspension (main.py:79-108 and the callers' continuations).
GetStep(c, o) ==
    LET a == Attempt(o, c.attempt, DefaultMaxRetries)
        d == [c EXCEPT !.trace = Append(@, GetEvent(c.req, o))]
    IN  IF a.pc = "done" THEN FetchEnded(d, a.result) ELSE [d EXCEPT !.pc = a.pc]

\* await asyncio.sleep(secs); continue (main.py:92-93, 103-104).
SleepStep(c, secs) ==
    LET f == ForLoop(c.attempt + 1, DefaultMaxRetries)
        d == [c EXCEPT !.trace = Append(@, SleepEvent(secs)), !.attempt = c.attempt + 1]
    IN  IF f.pc = "done" THEN FetchEnded(d, f.result) ELSE [d EXCEPT !.pc = f.pc]

\* Mutant: the attempt counter kept in one place for all invocations.
StoreSharedAttempt(cs, t, c) ==
    [u \in DOMAIN cs |-> IF u = t THEN c ELSE [cs[u] EXCEPT !.attempt = c.attempt]]
\* The locals of an invocation live in its own coroutine frame: a step of
\* task t changes the frame of t and no other (main.py:77, 363-372).
Store(cs, t, c) == [cs EXCEPT ![t] = c]

\* The server starts serving an invocation in a free slot.
CallTool(t, name, arguments) ==
    /\ calls[t].pc = "idle"
    /\ calls' = Store(calls, t, call_tool(name, arguments))
    /\ UNCHANGED <<fetchVars, resolveVars, api_key, listed, extVars>>

TaskGet(t, o) ==
    /\ calls[t].pc = "get"
    /\ calls' = Store(calls, t, GetStep(calls[t], o))
    /\ UNCHANGED <<fetchVars, resolveVars, api_key, listed, extVars>>

TaskBackoff(t) ==
    /\ calls[t].pc = "backoff"
    /\ calls' = Store(calls, t, SleepStep(calls[t], BackoffDelay(calls[t].attempt)))
    /\ UNCHANGED <<fetchVars, resolveVars, api_key, listed, extVars>>

TaskPause(t) ==
    /\ calls[t].pc = "pause"
    /\ calls' = Store(calls, t, SleepStep(calls[t], TimeoutDelay))
    /\ UNCHANGED <<fetchVars, resolveVars, api_key, listed, extVars>>

\* The result is handed to the client and the frame is gone.
TaskReturn(t) ==
    /\ calls[t].pc = "done"
    /\ calls' = Store(calls, t, IdleCall)
    /\ UNCHANGED <<fetchVars, resolveVars, api_key, listed, extVars>>

\* list_tools has no suspension point and reads no state (main.py:229-297).
ListTools ==
    /\ listed' = list_tools
    /\ UNCHANGED <<fetchVars, resolveVars, api_key, calls, extVars>>

---------------------------------------------------------------------------
(* The environment of the dispatcher: the client's requests and the        *)
(* provider's answers.                                                     *)

\* The values the environment variable may have had at import: unset, set.
ApiKeys == { "", "KEY" }

\* Tool names a client sends: the three tools and one that is none of them.
Names == ToolNames \cup { "get_uv_index" }

\* Location strings a client sends: empty, blank, a name, a name with blanks
\* around it, a coordinate pair, a pair that is out of range.
CallLocations ==
    { <<>>, <<" ">>, <<"x">>, <<" ", "x", " ">>, <<"9", ",", "9">>, <<"9", "9", ",", "9">> }

\* Location arguments: strings, and values that are no strings.
LocationArgs == { PyStr(s) : s \in CallLocations } \cup { JNum(9, 0), JNull }

\* The arguments a client sends: a mapping with or without location and
\* units, or no mapping at all (None).
Arguments ==
    { JNull, JDict(<<>>), JDict([units |-> "kelvin"]) }
    \cup { JDict([location |-> l]) : l \in LocationArgs }
    \cup { JDict([location |-> l, units |-> u]) :
             l \in LocationArgs, u \in { "celsius", "fahrenheit", "kelvin" } }

\* Payloads of the data endpoints: a current-weather document, a forecast
\* list, an air-quality list, an empty document, and documents whose "main"
\* or "list" is not what the formatters expect.
DataValues ==
    { JDict([main |-> JDict([temp |-> JNum(300, 0)])]),
      JDict([list |-> JList(<<JDict([main |-> JDict([temp |-> JNum(280, 0)])])>>)]),
      JDict([list |-> JList(<<JDict([main |-> JDict([aqi |-> JNum(2, 0)])])>>)]),
      JDict(<<>>),
      JDict([main |-> JNum(9, 0)]),
      JDict([list |-> JNum(9, 0)]) }

DataOutcomes ==
    { Response(200, JsonBody(v)) : v \in DataValues }
    \cup { o \in Outcomes : o.kind # "response" \/ o.status # 200 \/ ~o.body.json }

\* The answers explored for a request: geocoding-shaped documents for the
\* geocoding endpoint, data-shaped ones for the others; the failures are the
\* same.
OutcomesFor(request) == IF request.url = "GEO/direct" THEN Outcomes ELSE DataOutcomes

\* The server process after import: the credential is whatever the
\* environment held, no invocation is being served.
InitCall ==
    /\ api_key \in ApiKeys
    /\ calls = NoCalls
    /\ listed = <<>>
    /\ process = NoProcess
    /\ fmt = NoFormat
    /\ notes = NoNotes
    /\ req = GeocodeRequest(<<>>)
    /\ max_retries = DefaultMaxRetries
    /\ attempt = 0
    /\ fpc = "idle"
    /\ result = NoResult
    /\ trace = <<>>
    /\ location = <<>>
    /\ rpc = "idle"
    /\ rresult = NoResult
    /\ lookups = <<>>
    /\ prev = NoResult

\* One invocation at a time, with every request and every answer.
NextCall ==
    \/ \E name \in Names, arguments \in Arguments : CallTool("t1", name, arguments)
    \/ \E o \in OutcomesFor(calls["t1"].req) : TaskGet("t1", o)
    \/ TaskBackoff("t1")
    \/ TaskPause("t1")
    \/ TaskReturn("t1")
    \/ ListTools

SpecCall == InitCall /\ [][NextCall]_vars

---------------------------------------------------------------------------
(* Claims about call_tool and list_tools, checked under SpecCall.          *)

\* The invocation SpecCall serves.
TheCall == calls["t1"]
Ended == TheCall.pc = "done"
\* No fetch_with_retry call was made and no GET was issued.
NoUpstreamRequest == TheCall.fetches = <<>> /\ TheCall.trace = <<>>
\* The invocation returned a list of one text content.
ReturnedText ==
    /\ TheCall.ret.how = "return"
    /\ Len(TheCall.ret.value) = 1
    /\ TheCall.ret.value[1].type = "text"
\* The message of the returned text.
Message == TheCall.ret.value[1].text.text

\* C12: call_tool never raises to its caller: whatever the name, the
\* arguments and the failures of resolver, fetcher and formatter, an ended
\* invocation has returned a text result.
C12_CallToolNeverRaises == Ended => ReturnedText

\* The arguments are a mapping whose location is missing, empty or made of
\* blanks only.
BlankLocation(arguments) ==
    /\ arguments.t = "dict"
    /\ \/ "location" \notin DOMAIN arguments.d
       \/ /\ arguments.d.location.t = "pystr"
          /\ \A i \in 1 .. Len(arguments.d.location.s) : arguments.d.location.s[i] = " "

LocationRequired ==
    /\ ReturnedText
    /\ Message = "Error: Location parameter is required."
    /\ NoUpstreamRequest

\* C13 as stated: whenever the location is missing, empty or blank, the
\* invocation returns the text 'Location parameter is required' and makes no
\* request.
C13_AsStated == (Ended /\ BlankLocation(TheCall.arguments)) => LocationRequired

\* C13: with the credential configured, an invocation whose location is
\* missing, empty or blank returns the text 'Location parameter is required'
\* without raising and without any geocoding or data request.
C13_BlankLocationRejected ==
    (Ended /\ BlankLocation(TheCall.arguments) /\ api_key = "KEY") => LocationRequired

\* A location of one blank, rejected.
C13_Witness ==
    /\ api_key = "KEY"
    /\ Ended
    /\ TheCall.arguments = JDict([location |-> PyStr(<<" ">>)])
    /\ TheCall.ret = TextResult(LocationRequiredText)
    /\ NoUpstreamRequest

\* C14: without a configured credential every invocation, whatever its
\* name and arguments, ends at once with a text error and no upstream
\* request; it is never suspended in a fetch.
C14_NoCredentialNoRequest ==
    api_key = ""
    => /\ TheCall.pc \in { "idle", "done" }
       /\ NoUpstreamRequest
       /\ Ended => (ReturnedText /\ TheCall.ret = TextResult(KeyNotSetText))

\* A forecast for a city asked without a credential.
C14_Witness ==
    /\ api_key = ""
    /\ Ended
    /\ TheCall.name = "get_weather_forecast"
    /\ TheCall.arguments = JDict([location |-> PyStr(<<"x">>)])
    /\ Message = KeyNotSetText.text
    /\ NoUpstreamRequest

\* The arguments are a mapping with a location string that is not blank.
ValidLocation(arguments) ==
    /\ arguments.t = "dict"
    /\ "location" \in DOMAIN arguments.d
    /\ arguments.d.location.t = "pystr"
    /\ \E i \in 1 .. Len(arguments.d.location.s) : arguments.d.location.s[i] # " "

UnknownName == TheCall.name \notin { "get_current_weather", "get_weather_forecast", "get_air_quality" }
SaysUnknownTool == ReturnedText /\ Message = "Error: Unknown tool" /\ TheCall.ret.value[1].text.detail = TheCall.name
\* The invocation has its coordinates.
Resolved == TheCall.lat_lon # JNull
\* No request went to a data endpoint.
NoDataRequest ==
    /\ \A i \in 1 .. Len(TheCall.fetches) : TheCall.fetches[i].url = "GEO/direct"
    /\ \A i \in 1 .. Len(TheCall.trace) : IsGet(TheCall.trace[i]) => TheCall.trace[i].req.url = "GEO/direct"

\* C15 as stated, granted a configured credential: an invocation with an
\* unknown name and a valid location returns the text 'Unknown tool',
\* whatever the provider answers.
C15_AsStated ==
    (Ended /\ UnknownName /\ ValidLocation(TheCall.arguments) /\ api_key = "KEY") => SaysUnknownTool

\* C15: with the credential configured, an invocation with an unknown name
\* and a valid location never raises and makes no data request; it returns
\* the text 'Unknown tool' when the location resolves and the error text of
\* the resolution when it does not.
C15_UnknownToolAfterResolution ==
    (Ended /\ UnknownName /\ ValidLocation(TheCall.arguments) /\ api_key = "KEY")
    => /\ ReturnedText
       /\ NoDataRequest
       /\ Resolved => SaysUnknownTool
       /\ ~Resolved => Message \in { "Error", "Unexpected error" }

\* An unknown tool asked for a city, which geocoding finds after one
\* rate-limited attempt.
C15_Witness ==
    /\ api_key = "KEY"
    /\ Ended
    /\ TheCall.name = "get_uv_index"
    /\ TheCall.location = <<"x">>
    /\ Len(TheCall.trace) = 3
    /\ Is429(TheCall.trace[1].out)
    /\ Resolved
    /\ SaysUnknownTool

\* Observations of one invocation c, read off its trace and its fetches.
Range(f) == { f[i] : i \in DOMAIN f }
IsGeoGet(e) == IsGet(e) /\ e.req.url = "GEO/direct"
IsDataGet(e) == IsGet(e) /\ e.req.url # "GEO/direct"
IsGeoFetch(request) == request.url = "GEO/direct"
IsDataFetch(request) == request.url # "GEO/direct"
GeoGets(c) == SelectSeq(c.trace, IsGeoGet)
DataGets(c) == SelectSeq(c.trace, IsDataGet)
DataFetches(c) == SelectSeq(c.fetches, IsDataFetch)

\* The provider's answer o is a geocoding result with a usable first match.
HasFirstMatch(o) ==
    /\ IsJson2xx(o)
    /\ o.body.v.t = "list"
    /\ Len(o.body.v.items) > 0
    /\ o.body.v.items[1].t = "dict"
    /\ { "lat", "lon" } \subseteq DOMAIN o.body.v.items[1].d

\* The location of c was resolved: written as coordinates, or found by the
\* last geocoding GET.
LocationResolved(c) ==
    \/ IsLatLon(c.location)
    \/ GeoGets(c) # <<>> /\ HasFirstMatch(GeoGets(c)[Len(GeoGets(c))].out)

\* The resolution of c is over and gave no coordinates.
ResolutionFailed(c) == c.pc = "done" /\ c.location # <<>> /\ ~LocationResolved(c)

\* C16: within one invocation of a tool the upstream interactions are
\* sequential.  (1) At most one geocoding fetch, made first and only for a
\* location not written as coordinates, and at most one data fetch.  (2) No
\* geocoding GET follows a data GET, and the data fetch starts only when the
\* location is resolved.  (3) An invocation of one of the three tools that
\* has resolved its location has made exactly one data fetch; one whose
\* resolution failed has made none.  (4) The request in flight, if any, is
\* that of the one fetch in progress.  (5) No fetch is repeated: each
\* endpoint sees at most DefaultMaxRetries GETs, all with the request of
\* its fetch.
C16_SequentialUpstream ==
    LET c == TheCall
        n == Len(c.fetches)
    IN  /\ n <= 2
        /\ \A i \in 1 .. n : IsGeoFetch(c.fetches[i]) => (i = 1 /\ ~IsLatLon(c.location))
        /\ Len(DataFetches(c)) <= 1
        /\ \A i, j \in 1 .. Len(c.trace) : (i < j /\ IsDataGet(c.trace[i])) => ~IsGeoGet(c.trace[j])
        /\ DataFetches(c) # <<>> => LocationResolved(c)
        /\ (c.name \in ToolNames /\ c.stage # "geocode" /\ c.location # <<>> /\ LocationResolved(c))
           => Len(DataFetches(c)) = 1
        /\ ResolutionFailed(c) => (DataFetches(c) = <<>> /\ DataGets(c) = <<>>)
        /\ c.pc = "get" => (n > 0 /\ c.req = c.fetches[n])
        /\ c.pc \in { "idle", "done" } => c.stage = "none"
        /\ Len(GeoGets(c)) <= DefaultMaxRetries
        /\ Len(DataGets(c)) <= DefaultMaxRetries
        /\ \A i \in 1 .. Len(c.trace) : IsGet(c.trace[i]) => c.trace[i].req \in Range(c.fetches)

\* A forecast for a city: geocoding answers after one 429, the forecast
\* after one timeout.
C16_Witness ==
    LET c == TheCall
    IN  /\ c.pc = "done"
        /\ c.name = "get_weather_forecast"
        /\ c.location = <<"x">>
        /\ Len(c.fetches) = 2
        /\ Len(GeoGets(c)) = 2
        /\ Is429(GeoGets(c)[1].out)
        /\ Len(DataGets(c)) = 2
        /\ IsTimeoutOut(DataGets(c)[1].out)
        /\ IsJson2xx(DataGets(c)[2].out)
        /\ ReturnedText
        /\ Message = "5-Day Forecast for"

\* The endpoint and the texts of each tool, written out.
EndpointOfTool ==
    [ get_current_weather  |-> "BASE/weather",
      get_weather_forecast |-> "BASE/forecast",
      get_air_quality      |-> "BASE/air_pollution" ]
TextsOfTool ==
    [ get_current_weather  |-> { "Weather for", "No weather data available." },
      get_weather_forecast |-> { "5-Day Forecast for", "No forecast data available." },
      get_air_quality      |-> { "Air Quality Index (AQI)", "No air quality data available." } ]

\* The coordinates of a resolved location, read off the location string or
\* off the last geocoding answer.
CoordinatesOf(c) ==
    IF IsLatLon(c.location)
    THEN [lat |-> ParseFloat(Split(c.location, ",")[1]).v, lon |-> ParseFloat(Split(c.location, ",")[2]).v]
    ELSE LET first == GeoGets(c)[Len(GeoGets(c))].out.body.v.items[1].d
         IN  [lat |-> first.lat, lon |-> first.lon]

\* C17: call_tool routes by name.  Every data request of an invocation of
\* tool T goes to the endpoint of T and carries exactly the resolved
\* latitude and longitude and the API key; when the fetch delivers a
\* payload, the invocation returns a text of the formatter of T built from
\* that payload, or the text of an error the formatter of T raised on it.
C17_RoutesByName ==
    LET c == TheCall
    IN  (c.name \in ToolNames /\ DataFetches(c) # <<>>)
        => /\ DataFetches(c)[1] =
                 [url |-> EndpointOfTool[c.name],
                  params |-> [lat |-> CoordinatesOf(c).lat, lon |-> CoordinatesOf(c).lon, appid |-> api_key]]
           /\ \A i \in 1 .. Len(DataGets(c)) : DataGets(c)[i].req = DataFetches(c)[1]
           /\ (c.pc = "done" /\ IsJson2xx(c.trace[Len(c.trace)].out))
              => /\ ReturnedText
                 /\ \/ Message = "Unexpected error"
                    \/ /\ Message \in TextsOfTool[c.name]
                       /\ TheCall.ret.value[1].text.detail # <<>>
                          => TheCall.ret.value[1].text.detail.data = c.trace[Len(c.trace)].out.body.v

\* Air quality asked for the pair "9,9": one GET of /air_pollution with
\* lat 9, lon 9, and the air-quality text built from its payload.
C17_Witness ==
    LET c == TheCall
    IN  /\ c.pc = "done"
        /\ c.name = "get_air_quality"
        /\ c.location = <<"9", ",", "9">>
        /\ Len(c.trace) = 1
        /\ c.trace[1].req = [url |-> "BASE/air_pollution",
                             params |-> [lat |-> JNum(9, 0), lon |-> JNum(9, 0), appid |-> "KEY"]]
        /\ Message = "Air Quality Index (AQI)"
        /\ c.ret.value[1].text.detail.data = c.trace[1].out.body.v

\* A descriptor names location as its one required argument, of type string.
RequiresLocation(tool) ==
    /\ tool.inputSchema.required = <<"location">>
    /\ "location" \in DOMAIN tool.inputSchema.properties
    /\ tool.inputSchema.properties.location.type = "string"

\* A descriptor offers units: celsius, fahrenheit or kelvin, celsius by default.
OffersUnits(tool) ==
    /\ "units" \in DOMAIN tool.inputSchema.properties
    /\ tool.inputSchema.properties.units.enum = <<"celsius", "fahrenheit", "kelvin">>
    /\ tool.inputSchema.properties.units.default = "celsius"

\* C19: whatever list_tools has returned, before or after any call_tool
\* invocations and in whatever state they are, is the same list of three
\* descriptors: current weather, forecast, air quality, each requiring
\* location, the first two offering units, air quality having no units.
C19_StaticToolList ==
    listed # <<>>
    => /\ Len(listed) = 3
       /\ [i \in 1 .. 3 |-> listed[i].name] = <<"get_current_weather", "get_weather_forecast", "get_air_quality">>
       /\ \A i \in 1 .. 3 : RequiresLocation(listed[i])
       /\ OffersUnits(listed[1])
       /\ OffersUnits(listed[2])
       /\ DOMAIN listed[3].inputSchema.properties = { "location" }

\* The list as returned while an invocation that went upstream has ended.
C19_Witness ==
    /\ Len(listed) = 3
    /\ Ended
    /\ ReturnedText
    /\ TheCall.trace # <<>>
    /\ listed[3].name = "get_air_quality"

---------------------------------------------------------------------------
(* Invocations served concurrently: the tasks interleave at their          *)
(* suspension points (every GET and every sleep).                          *)

\* The requests explored: the current weather of a city in two units, and
\* the air quality at a coordinate pair.
ConcInputs ==
    { [name |-> "get_current_weather",
       arguments |-> JDict([location |-> PyStr(<<"x">>), units |-> "celsius"])],
      [name |-> "get_current_weather",
       arguments |-> JDict([location |-> PyStr(<<"x">>), units |-> "fahrenheit"])],
      [name |-> "get_air_quality",
       arguments |-> JDict([location |-> PyStr(<<"9", ",", "9">>)])] }

\* The answers explored: a match or no match from geocoding, a document
\* from the data endpoints, and from both a 429, a timeout and a 500.
ConcOutcomes(request) ==
    { Response(429, TextBody("err-a")), TimeoutOutcome, Response(500, TextBody("err-a")) }
    \cup IF request.url = "GEO/direct"
         THEN { Response(200, JsonBody(JList(<<JDict([lat |-> JNum(99, 1), lon |-> JNum(-9, 0)])>>))),
                Response(200, JsonBody(JList(<<>>))) }
         ELSE { Response(200, JsonBody(JDict([main |-> JDict([temp |-> JNum(300, 0)])]))) }

NextConc ==
    \/ \E t \in Tasks, in \in ConcInputs : CallTool(t, in.name, in.arguments)
    \/ \E t \in Tasks : \E o \in ConcOutcomes(calls[t].req) : TaskGet(t, o)
    \/ \E t \in Tasks : TaskBackoff(t)
    \/ \E t \in Tasks : TaskPause(t)
    \/ \E t \in Tasks : TaskReturn(t)

SpecConc == InitCall /\ [][NextConc]_vars

---------------------------------------------------------------------------
(* Claims about concurrent invocations, checked under SpecConc.            *)

\* A frame that left the course of the invocation run alone.
Diverged == [IdleCall EXCEPT !.pc = "diverged"]

\* The invocation run alone: frame c taken through the events tr, one after
\* the other, each GET answered as tr says.
RECURSIVE Replay(_, _)
Replay(c, tr) ==
    IF tr = <<>> THEN c
    ELSE IF IsGet(Head(tr))
    THEN (IF c.pc = "get" THEN Replay(GetStep(c, Head(tr).out), Tail(tr)) ELSE Diverged)
    ELSE IF c.pc = "backoff" THEN Replay(SleepStep(c, BackoffDelay(c.attempt)), Tail(tr))
    ELSE IF c.pc = "pause" THEN Replay(SleepStep(c, TimeoutDelay), Tail(tr))
    ELSE Diverged

\* What the invocation of frame c would be had it run alone against the
\* answers c has received.
RunAlone(c) == Replay(call_tool(c.name, c.arguments), c.trace)

\* C18: invocations interleaved at their suspension points share no mutable
\* state: at every moment the frame of each one (attempt counter, resolved
\* coordinates, requests issued, sleeps taken, result) is the frame it would
\* have had it run alone against the same answers, whatever the other
\* invocation, earlier or concurrent, has done.
C18_InvocationsIsolated ==
    \A t \in Tasks : calls[t].pc # "idle" => calls[t] = RunAlone(calls[t])

\* Two invocations in the middle of their fetches, at different attempts:
\* one about to take its second backoff, the other at the first attempt of
\* its data fetch.
C18_Witness ==
    /\ calls["t1"].pc = "backoff"
    /\ calls["t1"].attempt = 1
    /\ calls["t2"].pc = "get"
    /\ calls["t2"].attempt = 0
    /\ calls["t2"].stage = "data"
    /\ calls["t2"].trace # <<>>

\* The answers an invocation has received and the requests it has issued.
AnswersOf(c) == [i \in 1 .. Len(SelectSeq(c.trace, IsGet)) |-> SelectSeq(c.trace, IsGet)[i].out]
RequestsOf(c) == [i \in 1 .. Len(SelectSeq(c.trace, IsGet)) |-> SelectSeq(c.trace, IsGet)[i].req]

\* Two arguments that differ in units and in nothing else.
DifferInUnitsOnly(a, b) ==
    /\ a.t = "dict"
    /\ b.t = "dict"
    /\ DOMAIN a.d \ { "units" } = DOMAIN b.d \ { "units" }
    /\ \A k \in DOMAIN a.d \ { "units" } : a.d[k] = b.d[k]
    /\ ArgUnits(a) # ArgUnits(b)

\* A result with the scale of its temperatures taken out: the message, the
\* payload, the fields that are no temperature, and the kelvin values
\* rendered.
WithoutScale(r) ==
    IF r.how = "return" /\ r.value[1].text.detail # <<>> /\ r.value[1].text.text \notin { "Error", "Unexpected error", "Error: Unknown tool" }
    THEN [text |-> r.value[1].text.text,
          data |-> r.value[1].text.detail.data,
          fields |-> r.value[1].text.detail.fields,
          kelvin |-> [i \in 1 .. Len(r.value[1].text.detail.temps) |-> r.value[1].text.detail.temps[i].kelvin]]
    ELSE r

\* C20: units affects only the formatting.  Two invocations of the same
\* tool whose arguments differ only in units and that received the same
\* answers have issued the same requests, in the same number of attempts;
\* once both have ended they have taken the same sleeps, made the same
\* fetches, resolved the same coordinates and returned results that are
\* equal up to the scale in which the same kelvin values are rendered.
C20_UnitsOnlyFormat ==
    \A t, u \in Tasks :
        ( /\ calls[t].pc # "idle"
          /\ calls[u].pc # "idle"
          /\ calls[t].name = calls[u].name
          /\ DifferInUnitsOnly(calls[t].arguments, calls[u].arguments)
          /\ AnswersOf(calls[t]) = AnswersOf(calls[u]) )
        => /\ RequestsOf(calls[t]) = RequestsOf(calls[u])
           /\ (calls[t].pc = "done" /\ calls[u].pc = "done")
              => /\ calls[t].trace = calls[u].trace
                 /\ calls[t].fetches = calls[u].fetches
                 /\ calls[t].lat_lon = calls[u].lat_lon
                 /\ WithoutScale(calls[t].ret) = WithoutScale(calls[u].ret)

\* The weather of one city asked in celsius and in fahrenheit; both
\* invocations were rate limited once and then answered alike, and their
\* texts differ.
C20_Witness ==
    /\ calls["t1"].pc = "done"
    /\ calls["t2"].pc = "done"
    /\ calls["t1"].units = "celsius"
    /\ calls["t2"].units = "fahrenheit"
    /\ calls["t1"].trace = calls["t2"].trace
    /\ Len(calls["t1"].trace) = 4
    /\ calls["t1"].ret.how = "return"
    /\ calls["t1"].ret.value[1].text.text = "Weather for"
    /\ calls["t1"].ret.value[1].text.detail.temps[1].scale = "C"
    /\ calls["t2"].ret.value[1].text.detail.temps[1].scale = "F"
    /\ calls["t1"].ret # calls["t2"].ret

---------------------------------------------------------------------------
(* Claims about the attempt counter of fetch_with_retry, checked under     *)
(* SpecFetch.                                                              *)

\* The 0-indexed attempt of the GET at position i of the trace.
AttemptAt(i) == Len(SelectSeq(SubSeq(trace, 1, i), IsGet)) - 1

\* C28: 429s and timeouts of one fetch share one attempt counter.  Whatever
\* the mix of the two, at most max_retries GETs are issued in total; every
\* sleep directly follows the GET it answers, lasts 2^i seconds after a 429
\* at attempt i (however the earlier attempts failed) and 1 second after a
\* timeout; and a fetch that ends on a 429 or on a timeout fails with the
\* error of that last outcome.
C28_SharedAttemptCounter ==
    /\ NumGets <= (IF max_retries > 0 THEN max_retries ELSE 0)
    /\ \A i \in 1 .. Len(trace) :
          IsSleep(trace[i])
          => /\ i > 1
             /\ IsGet(trace[i - 1])
             /\ Is429(trace[i - 1].out) \/ IsTimeoutOut(trace[i - 1].out)
             /\ Is429(trace[i - 1].out) => trace[i].secs = 2 ^ AttemptAt(i - 1)
             /\ IsTimeoutOut(trace[i - 1].out) => trace[i].secs = 1
    /\ (fpc = "done" /\ NumGets > 0 /\ Is429(Outs[NumGets]))
       => (result = Raise("RateLimited") /\ NumGets = max_retries)
    /\ (fpc = "done" /\ NumGets > 0 /\ IsTimeoutOut(Outs[NumGets]))
       => (result = Raise("Timeout") /\ NumGets = max_retries)

\* A timeout, then a 429 (at attempt 1, so a sleep of 2 seconds), then a
\* timeout on the third and last attempt.
C28_Witness ==
    /\ max_retries = 3
    /\ fpc = "done"
    /\ NumGets = 3
    /\ IsTimeoutOut(Outs[1]) /\ Is429(Outs[2]) /\ IsTimeoutOut(Outs[3])
    /\ SleepSecs = <<1, 2>>
    /\ result = Raise("Timeout")

\* C29: called with max_retries <= 0, fetch_with_retry issues no GET, takes
\* no sleep and fails with 'Failed to fetch data after multiple retries';
\* called with max_retries >= 1 it never ends with that error.
C29_GenericErrorOnlyWithoutAttempts ==
    /\ (max_retries <= 0 /\ fpc # "call")
       => (fpc = "done" /\ result = Raise("Exhausted") /\ trace = <<>>)
    /\ max_retries <= 0 => trace = <<>>
    /\ max_retries >= 1 => result # Raise("Exhausted")

\* The fetch called with max_retries = 0, over without a GET.
C29_Witness ==
    /\ max_retries = 0
    /\ fpc = "done"
    /\ result = Raise("Exhausted")
    /\ trace = <<>>

---------------------------------------------------------------------------
(* The formatters called on their own, as the tests call them              *)
(* (tests/test_weather.py): one call of one formatter with one payload.    *)

\* The most entries of a forecast list explored.
MaxEntries == 9

FormatUnits == {"celsius", "fahrenheit", "kelvin"}
\* The default of the unit parameter (main.py:113, 123, 162).
DefaultUnit(unit) == IF unit = "omitted" THEN "celsius" ELSE unit

\* d restricted to the keys in K
Restrict(d, K) == [k \in K |-> d[k]]
\* d with any of its fields absent
SubDicts(d) == { Restrict(d, K) : K \in SUBSET DOMAIN d }

\* The temperatures explored: hundredths around the freezing point, two
\* ints, and the values of the tests.
Kelvins ==
    { JNum(m, 2) : m \in 27290 .. 27340 }
    \cup { JNum(0, 0), JNum(300, 0), JNum(29315, 2), JNum(28315, 2), JNum(37315, 2), JNum(1, 0), JNum(5, 2) }

\* A payload of the current-weather endpoint with every field the formatter
\* reads (tests/test_weather.py:48-58).
FullMain ==
    [temp |-> JNum(28315, 2), feels_like |-> JNum(28165, 2), temp_min |-> JNum(280, 0),
     temp_max |-> JNum(28515, 2), humidity |-> JNum(81, 0), pressure |-> JNum(1012, 0)]
FullCondition == [main |-> JStr("Clouds"), description |-> JStr("overcast clouds")]
FullWind == [speed |-> JNum(41, 1), deg |-> JNum(80, 0)]
FullClouds == [all |-> JNum(90, 0)]
FullPrecipitation == ("1h" :> JNum(25, 2)) @@ ("3h" :> JNum(1, 0))
FullWeather ==
    [name |-> JStr("London"), dt |-> JNum(1000, 0), main |-> JDict(FullMain),
     weather |-> JList(<<JDict(FullCondition)>>), wind |-> JDict(FullWind), clouds |-> JDict(FullClouds),
     rain |-> JDict(FullPrecipitation), snow |-> JDict(FullPrecipitation)]

\* FullWeather with any of its fields absent, or with any of the fields of
\* one of its parts absent.
WeatherPayloads ==
    { JDict(d) : d \in SubDicts(FullWeather) }
    \cup { JDict([FullWeather EXCEPT !.main = JDict(m)]) : m \in SubDicts(FullMain) }
    \cup { JDict([FullWeather EXCEPT !.weather = JList(<<JDict(w)>>)]) : w \in SubDicts(FullCondition) }
    \cup { JDict([FullWeather EXCEPT !.weather = JList(<<>>)]) }
    \cup { JDict([FullWeather EXCEPT !.wind = JDict(w)]) : w \in SubDicts(FullWind) }
    \cup { JDict([FullWeather EXCEPT !.clouds = JDict(c)]) : c \in SubDicts(FullClouds) }
    \cup { JDict([FullWeather EXCEPT !.rain = JDict(r), !.snow = JDict(r)]) : r \in SubDicts(FullPrecipitation) }

\* The probabilities of precipitation explored.
Pops == { JNum(125, 3), JNum(1, 1), JNum(0, 0), JNum(1, 0), JNum(5, 1), JNum(5, 3), JNum(15, 3),
          JNum(995, 3), JNum(35, 2), JNum(375, 3) }

\* An entry of the forecast list with every field the formatter reads
\* (tests/test_weather.py:98-106); i tells the entries apart.
FullEntryMain(i) == [temp |-> JNum(280 + i, 0), feels_like |-> JNum(27815 + 100 * i, 2), humidity |-> JNum(70 + i, 0)]
FullEntry(i) ==
    [dt |-> JNum(1000 * i, 0), main |-> JDict(FullEntryMain(i)),
     weather |-> JList(<<JDict(FullCondition)>>), wind |-> JDict([speed |-> JNum(30 + i, 1)]),
     pop |-> JNum(125, 3)]
FullCoord == [lat |-> JNum(515, 1), lon |-> JNum(-1, 1)]
FullCity == [name |-> JStr("London"), coord |-> JDict(FullCoord)]
\* A forecast payload of the given city and entries.
Forecast(city, entries) == JDict([city |-> JDict(city), list |-> JList(entries)])
\* An entry that is no object.
Junk == JNum(9, 0)

\* The forecast lists explored: the first n of MaxEntries entries, the same
\* with the last entry replaced by another entry or by junk.
ForecastLists ==
    LET entries == [i \in 1 .. MaxEntries |-> JDict(FullEntry(i))]
    IN  { SubSeq(entries, 1, n) : n \in 0 .. MaxEntries }
        \cup { [SubSeq(entries, 1, n) EXCEPT ![n] = last] :
                  n \in 1 .. MaxEntries, last \in {JDict(FullEntry(0)), Junk} }

ForecastPayloads ==
    { Forecast(FullCity, l) : l \in ForecastLists }
    \cup { JDict(d) : d \in SubDicts([city |-> JDict(FullCity), list |-> JList(<<JDict(FullEntry(1))>>)]) }
    \cup { Forecast(c, <<JDict(FullEntry(1))>>) : c \in SubDicts(FullCity) }
    \cup { Forecast([FullCity EXCEPT !.coord = JDict(c)], <<JDict(FullEntry(1))>>) : c \in SubDicts(FullCoord) }
    \cup { Forecast(FullCity, <<JDict(e)>>) : e \in SubDicts(FullEntry(1)) }
    \cup { Forecast(FullCity, <<JDict([FullEntry(1) EXCEPT !.main = JDict(m)])>>) : m \in SubDicts(FullEntryMain(1)) }
    \cup { Forecast(FullCity, <<JDict([FullEntry(1) EXCEPT !.wind = JDict(<<>>)])>>) }
    \cup { Forecast(FullCity, <<JDict([FullEntry(1) EXCEPT !.weather = JList(<<JDict(w)>>)])>>) :
              w \in SubDicts(FullCondition) }
    \cup { Forecast(FullCity, <<JDict([FullEntry(1) EXCEPT !.pop = p])>>) : p \in Pops }

\* The components of an air-quality entry (tests/test_weather.py:130-139),
\* and other values of them.
FullComponents ==
    [co |-> JNum(20127, 2), no |-> JNum(1, 2), no2 |-> JNum(77, 2), o3 |-> JNum(6866, 2),
     so2 |-> JNum(64, 2), pm2_5 |-> JNum(5, 1), pm10 |-> JNum(54, 2), nh3 |-> JNum(12, 2)]
OtherComponents ==
    [co |-> JNum(1, 0), no |-> JNum(2, 0), no2 |-> JNum(3, 0), o3 |-> JNum(4, 0),
     so2 |-> JNum(5, 0), pm2_5 |-> JNum(125, 3), pm10 |-> JNum(0, 0), nh3 |-> JNum(995, 3)]
ComponentValues ==
    { FullComponents, OtherComponents }
    \cup { Restrict(FullComponents, DOMAIN FullComponents \ {k}) : k \in DOMAIN FullComponents }
    \cup { Restrict(FullComponents, {k}) : k \in DOMAIN FullComponents }
    \cup { <<>> }

\* The indexes explored: ints in and around 1..5, floats, null and a string.
AqiValues == { JNum(i, 0) : i \in -1 .. 7 } \cup { JNum(20, 1), JNum(25, 1), JNull, JStr("2") }

\* An air-quality payload of one entry.
AirQuality(entry) == JDict([list |-> JList(<<JDict(entry)>>)])
AirQualityPayloads ==
    { AirQuality([main |-> JDict([aqi |-> a]), components |-> JDict(c), dt |-> JNum(1000, 0)]) :
         a \in AqiValues, c \in ComponentValues }
    \cup { AirQuality([main |-> JDict(<<>>), components |-> JDict(c), dt |-> JNum(1000, 0)]) : c \in ComponentValues }
    \cup { AirQuality(e) : e \in SubDicts([main |-> JDict([aqi |-> JNum(2, 0)]),
                                            components |-> JDict(FullComponents), dt |-> JNum(1000, 0)]) }
    \cup { JDict([list |-> JList(<<JDict([main |-> JDict([aqi |-> JNum(2, 0)])]),
                                   JDict([main |-> JDict([aqi |-> JNum(5, 0)])])>>)]),
           JDict([list |-> JList(<<>>)]), JDict(<<>>) }

\* The calls explored: the function, its payload and its unit.
FormatCalls ==
    { [pc |-> "called", fn |-> "format_temperature", data |-> k, unit |-> u, ret |-> Got(JNull)] :
         k \in Kelvins, u \in FormatUnits \cup {"omitted"} }
    \cup { [pc |-> "called", fn |-> "format_weather_response", data |-> d, unit |-> u, ret |-> Got(JNull)] :
              d \in WeatherPayloads, u \in FormatUnits \cup {"omitted"} }
    \cup { [pc |-> "called", fn |-> "format_forecast_response", data |-> d, unit |-> u, ret |-> Got(JNull)] :
              d \in ForecastPayloads, u \in FormatUnits }
    \cup { [pc |-> "called", fn |-> "format_air_quality_response", data |-> d, unit |-> "", ret |-> Got(JNull)] :
              d \in AirQualityPayloads }

\* A text with the characters of its temperatures.
Complete(r) ==
    IF r.ok /\ r.v.detail # <<>>
    THEN Got([r.v EXCEPT !.detail.temps =
                 [i \in 1 .. Len(@) |-> [kelvin |-> @[i].kelvin, scale |-> @[i].scale, text |-> Rendered(@[i])]]])
    ELSE r

\* What the call f returns or raises.
Formatted(f) ==
    CASE f.fn = "format_temperature"          -> format_temperature(f.data, DefaultUnit(f.unit))
      [] f.fn = "format_weather_response"     -> Complete(format_weather_response(f.data, DefaultUnit(f.unit)))
      [] f.fn = "format_forecast_response"    -> Complete(format_forecast_response(f.data, DefaultUnit(f.unit)))
      [] f.fn = "format_air_quality_response" -> Complete(format_air_quality_response(f.data))

\* The call runs to its end: the formatters are synchronous.
Format ==
    /\ fmt.pc = "called"
    /\ fmt' = [fmt EXCEPT !.pc = "done", !.ret = Formatted(fmt)]
    /\ UNCHANGED <<fetchVars, resolveVars, callVars, process, notes>>

InitFormat ==
    /\ api_key = "KEY"
    /\ fmt \in FormatCalls
    /\ calls = NoCalls
    /\ listed = <<>>
    /\ process = NoProcess
    /\ notes = NoNotes
    /\ req = GeocodeRequest(<<>>)
    /\ max_retries = DefaultMaxRetries
    /\ attempt = 0
    /\ fpc = "idle"
    /\ result = NoResult
    /\ trace = <<>>
    /\ location = <<>>
    /\ rpc = "idle"
    /\ rresult = NoResult
    /\ lookups = <<>>
    /\ prev = NoResult

NextFormat == Format

SpecFormat == InitFormat /\ [][NextFormat]_vars

---------------------------------------------------------------------------
(* Claims about the formatters, checked under SpecFormat.                  *)

FormatEnded == fmt.pc = "done"
\* The suffix a unit selects.
SuffixOf(unit) == CASE unit = "fahrenheit" -> <<"°", "F">> [] unit = "kelvin" -> <<"K">> [] OTHER -> <<"°", "C">>
EndsWith(text, suffix) ==
    Len(text) >= Len(suffix) /\ SubSeq(text, Len(text) - Len(suffix) + 1, Len(text)) = suffix
\* The text before its suffix.
Before(text, suffix) == SubSeq(text, 1, Len(text) - Len(suffix))
\* The digits of a number, its sign and its point taken out.
Unsigned(num) == IF num # <<>> /\ Head(num) = "-" THEN Tail(num) ELSE num
\* num is written with n places: digits, a point, n digits.
HasPlaces(num, n) ==
    LET u == Unsigned(num)
    IN  /\ Len(u) >= n + 2
        /\ u[Len(u) - n] = "."
        /\ \A i \in 1 .. Len(u) : i # Len(u) - n => IsDigit(u[i])
\* The number written with n places, times 10^n.
Scaled(num, n) ==
    LET u == Unsigned(num)
        v == DigitsVal(SubSeq(u, 1, Len(u) - n - 1) \o SubSeq(u, Len(u) - n + 1, Len(u)))
    IN  IF Head(num) = "-" THEN 0 - v ELSE v
Within(x, y, d) == x - y <= d /\ y - x <= d
\* The kelvin value m / 10^e in hundredths, for e <= 2.
Hundredths(k) == k.m * 10 ^ (2 - k.e)
Chars273_2K == <<"2", "7", "3", ".", "2", "K">>
Chars0_0C == <<"0", ".", "0", "°", "C">>
Chars32_0F == <<"3", "2", ".", "0", "°", "F">>

\* C23: format_temperature(k, unit) returns k - 273.15 followed by '°C' for
\* celsius (the default), (k - 273.15) * 9/5 + 32 followed by '°F' for
\* fahrenheit and k followed by 'K' for kelvin, each written with exactly
\* one place and rounded to it (within half a tenth of the exact value);
\* format_temperature(273.15, celsius) is '0.0°C', (273.15, fahrenheit) is
\* '32.0°F' and (273.15, kelvin) is '273.2K'.
C23_TemperatureRendering ==
    (FormatEnded /\ fmt.fn = "format_temperature")
    => LET unit == DefaultUnit(fmt.unit)
           num == Before(fmt.ret.v, SuffixOf(unit))
           h == Hundredths(fmt.data)
       IN  /\ fmt.ret.ok
           /\ EndsWith(fmt.ret.v, SuffixOf(unit))
           /\ HasPlaces(num, 1)
           /\ CASE unit = "fahrenheit" -> Within(50 * Scaled(num, 1), 9 * (h - 27315) + 16000, 25)
                [] unit = "kelvin"     -> Within(10 * Scaled(num, 1), h, 5)
                [] OTHER               -> Within(10 * Scaled(num, 1), h - 27315, 5)
           /\ fmt.data = JNum(27315, 2)
              => fmt.ret.v = CASE unit = "fahrenheit" -> Chars32_0F
                               [] unit = "kelvin"     -> Chars273_2K
                               [] OTHER               -> Chars0_0C

\* x is an object with the key.
Has(x, key) == x.t = "dict" /\ key \in DOMAIN x.d
\* The object under the key of x, the empty object when there is none.
Part(x, key) == IF Has(x, key) THEN x.d[key] ELSE JDict(<<>>)
\* The first item of the list under the key of x, the empty object when
\* there is none.
FirstPart(x, key) ==
    IF Has(x, key) /\ x.d[key].t = "list" /\ x.d[key].items # <<>> THEN x.d[key].items[1] ELSE JDict(<<>>)
\* The entries of a payload's list.
EntriesOf(data) == IF Has(data, "list") /\ data.d.list.t = "list" THEN data.d.list.items ELSE <<>>
\* Every entry of the payload's list is an object.
EntriesAreObjects(data) == \A i \in 1 .. Len(EntriesOf(data)) : EntriesOf(data)[i].t = "dict"
Zero == <<"0">>
Epoch == [fromtimestamp |-> JNum(0, 0)]
\* The detail of the text returned.
Detail == fmt.ret.v.detail
Unavailable(message) == fmt.ret.ok /\ fmt.ret.v = Text(message, <<>>)

\* The defaults of the current-weather text.
WeatherDefaults ==
    LET data == fmt.data
        main == Part(data, "main")
        weather == FirstPart(data, "weather")
        wind == Part(data, "wind")
        clouds == Part(data, "clouds")
        f == Detail.fields
    IN  /\ ~Has(data, "name") => f.name = "Unknown location"
        /\ ~Has(data, "dt") => f.time = Epoch
        /\ ~Has(weather, "main") => f.condition = "Unknown"
        /\ ~Has(weather, "description") => f.description = "No description"
        /\ \A i \in 1 .. 4 :
              ~Has(main, <<"temp", "feels_like", "temp_min", "temp_max">>[i])
              => /\ Detail.temps[i].kelvin = JNum(0, 0)
                 /\ Detail.temps[i].text = format_temperature(JNum(0, 0), DefaultUnit(fmt.unit)).v
        /\ ~Has(main, "humidity") => f.humidity = Zero
        /\ ~Has(main, "pressure") => f.pressure = Zero
        /\ ~Has(wind, "speed") => f.speed = Zero
        /\ ~Has(wind, "deg") => f.deg = Zero
        /\ ~Has(clouds, "all") => f.cloudiness = Zero
        /\ ~Has(data, "rain") => f.rain = <<>>
        /\ Has(data, "rain") /\ Truthy(data.d.rain) /\ ~Has(data.d.rain, "1h") => f.rain = <<Zero>>
        /\ ~Has(data, "snow") => f.snow = <<>>
        /\ Has(data, "snow") /\ Truthy(data.d.snow) /\ ~Has(data.d.snow, "1h") => f.snow = <<Zero>>

\* The defaults of the forecast text.
ForecastDefaults ==
    LET data == fmt.data
        city == Part(data, "city")
        f == Detail.fields
    IN  /\ ~Has(city, "name") => f.name = "Unknown location"
        /\ ~Has(Part(city, "coord"), "lat") => f.lat = Zero
        /\ ~Has(Part(city, "coord"), "lon") => f.lon = Zero
        /\ \A i \in 1 .. Len(f.blocks) :
              LET entry == EntriesOf(data)[i]
              IN  /\ ~Has(entry, "dt") => f.blocks[i].time = Epoch
                  /\ ~Has(Part(entry, "main"), "temp") => Detail.temps[2 * i - 1].kelvin = JNum(0, 0)
                  /\ ~Has(Part(entry, "main"), "feels_like") => Detail.temps[2 * i].kelvin = JNum(0, 0)
                  /\ ~Has(Part(entry, "main"), "humidity") => f.blocks[i].humidity = Zero
                  /\ ~Has(FirstPart(entry, "weather"), "main") => f.blocks[i].condition = "Unknown"
                  /\ ~Has(FirstPart(entry, "weather"), "description") => f.blocks[i].description = "No description"
                  /\ ~Has(Part(entry, "wind"), "speed") => f.blocks[i].speed = Zero
                  /\ ~Has(entry, "pop") => f.blocks[i].pop = <<"0", "%">>

\* The defaults of the air-quality text.
AirQualityDefaults ==
    LET entry == FirstPart(fmt.data, "list")
        f == Detail.fields
    IN  /\ ~Has(Part(entry, "main"), "aqi") => f.aqi = Zero /\ f.label = "Unknown"
        /\ ~Has(entry, "dt") => f.time = Epoch
        /\ \A i \in 1 .. Len(ComponentKeys) :
              ~Has(Part(entry, "components"), ComponentKeys[i]) => f.components[i] = <<"0", ".", "0", "0">>

\* C22: the three formatters do not raise on a payload with fields missing.
\* Whichever of the fields they read are absent, they return a text in
\* which every absent field is written as its default (0, 'Unknown',
\* 'Unknown location', 'No description', the time of timestamp 0, no line
\* for rain and snow); a payload without the field that carries the data,
\* and the empty payload, give the data-unavailable message.
C22_MissingFieldsRenderDefaults ==
    (FormatEnded /\ fmt.fn # "format_temperature" /\ EntriesAreObjects(fmt.data))
    => /\ fmt.ret.ok
       /\ CASE fmt.fn = "format_weather_response" ->
                  IF Has(fmt.data, "main") THEN fmt.ret.v.text = "Weather for" /\ WeatherDefaults
                  ELSE Unavailable("No weather data available.")
            [] fmt.fn = "format_forecast_response" ->
                  IF Has(fmt.data, "list") THEN fmt.ret.v.text = "5-Day Forecast for" /\ ForecastDefaults
                  ELSE Unavailable("No forecast data available.")
            [] fmt.fn = "format_air_quality_response" ->
                  IF EntriesOf(fmt.data) # <<>>
                  THEN fmt.ret.v.text = "Air Quality Index (AQI)" /\ AirQualityDefaults
                  ELSE Unavailable("No air quality data available.")

\* The current weather of a payload that has its main part and nothing
\* else: every other field is written as its default.
C22_Witness ==
    /\ FormatEnded
    /\ fmt.fn = "format_weather_response"
    /\ fmt.unit = "celsius"
    /\ fmt.data = JDict([main |-> JDict(FullMain)])
    /\ fmt.ret.ok
    /\ Detail.temps[1].text = <<"1", "0", ".", "0", "°", "C">>
    /\ Detail.fields.humidity = <<"8", "1">>
    /\ Detail.fields.name = "Unknown location"
    /\ Detail.fields.time = Epoch
    /\ Detail.fields.condition = "Unknown"
    /\ Detail.fields.description = "No description"
    /\ Detail.fields.speed = Zero
    /\ Detail.fields.cloudiness = Zero
    /\ Detail.fields.rain = <<>>

\* A forecast call that returned a text with blocks.
ForecastRendered ==
    /\ FormatEnded
    /\ fmt.fn = "format_forecast_response"
    /\ fmt.ret.ok
    /\ fmt.ret.v.text = "5-Day Forecast for"
\* The probability of the i-th entry in thousandths, 0 when it has none.
PopThousandths(i) ==
    LET entry == EntriesOf(fmt.data)[i]
    IN  IF Has(entry, "pop") THEN entry.d.pop.m * 10 ^ (3 - entry.d.pop.e) ELSE 0
\* The probability written in the i-th block, before its percent sign.
PopWritten(i) == Before(Detail.fields.blocks[i].pop, <<"%">>)
AllDigits(num) == num # <<>> /\ \A i \in 1 .. Len(num) : IsDigit(num[i])

\* C24 as stated: the probability of each entry is written as the fraction
\* times 100 with one decimal place (0.125 as 12.5%).
C24_AsStated ==
    ForecastRendered
    => \A i \in 1 .. Len(Detail.fields.blocks) :
          /\ EndsWith(Detail.fields.blocks[i].pop, <<"%">>)
          /\ HasPlaces(PopWritten(i), 1)
          /\ Within(Scaled(PopWritten(i), 1), PopThousandths(i), 0)

\* C24, amended: the probability of each entry is written as the fraction
\* times 100 rounded to a whole number, with no decimal place and followed
\* by '%'; 0.125 is written 12%.
C24_ProbabilityWholePercent ==
    ForecastRendered
    => \A i \in 1 .. Len(Detail.fields.blocks) :
          /\ EndsWith(Detail.fields.blocks[i].pop, <<"%">>)
          /\ AllDigits(PopWritten(i))
          /\ Within(10 * DigitsVal(PopWritten(i)), PopThousandths(i), 5)
          /\ PopThousandths(i) = 125 => Detail.fields.blocks[i].pop = <<"1", "2", "%">>

\* A forecast of one entry with probability 0.125, written 12%.
C24_Witness ==
    /\ ForecastRendered
    /\ fmt.data = Forecast(FullCity, <<JDict(FullEntry(1))>>)
    /\ FullEntry(1).pop = JNum(125, 3)
    /\ Len(Detail.fields.blocks) = 1
    /\ Detail.fields.blocks[1].pop = <<"1", "2", "%">>

\* What a call gave, the payload it was given left out: the temperatures and
\* the fields of the text, or the exception.
Outcome(r) == IF r.ok /\ r.v.detail # <<>> THEN [temps |-> r.v.detail.temps, fields |-> r.v.detail.fields] ELSE r
\* The first n items of a sequence, all of them when there are fewer.
Leading(items, n) == SubSeq(items, 1, IF Len(items) < n THEN Len(items) ELSE n)
\* Two forecast payloads that are equal but for the entries after the eighth.
EqualUpToEighth(d, o) ==
    /\ Has(d, "list") /\ Has(o, "list")
    /\ d.d.list.t = "list" /\ o.d.list.t = "list"
    /\ DOMAIN d.d = DOMAIN o.d
    /\ \A k \in DOMAIN d.d \ {"list"} : d.d[k] = o.d[k]
    /\ Leading(d.d.list.items, 8) = Leading(o.d.list.items, 8)

\* C25: the forecast formatter writes the first 8 entries of the list at
\* most, in the order of the list.  For a list of n entries the text has
\* min(n, 8) blocks, the i-th block being that of the i-th entry, and the
\* entries after the eighth have no influence: the call does not fail
\* because of them, and any payload that differs in them only gives the
\* same text.
C25_FirstEightEntries ==
    (FormatEnded /\ fmt.fn = "format_forecast_response" /\ Has(fmt.data, "list") /\ fmt.data.d.list.t = "list")
    => LET entries == EntriesOf(fmt.data)
           shown == Leading(entries, 8)
       IN  /\ (\A i \in 1 .. Len(shown) : shown[i].t = "dict") => fmt.ret.ok
           /\ fmt.ret.ok
              => /\ Len(Detail.fields.blocks) = Len(shown)
                 /\ Len(Detail.fields.blocks) <= 8
                 /\ \A i \in 1 .. Len(shown) :
                       /\ Has(shown[i], "dt") => Detail.fields.blocks[i].time = [fromtimestamp |-> shown[i].d.dt]
                       /\ Has(Part(shown[i], "main"), "temp")
                          => Detail.temps[2 * i - 1].kelvin = shown[i].d.main.d.temp
           /\ \A other \in ForecastPayloads :
                 EqualUpToEighth(fmt.data, other)
                 => Outcome(Formatted([fmt EXCEPT !.data = other])) = Outcome(fmt.ret)

\* A forecast of nine entries, the ninth being no object: eight blocks.
C25_Witness ==
    /\ ForecastRendered
    /\ Len(EntriesOf(fmt.data)) = 9
    /\ EntriesOf(fmt.data)[9] = Junk
    /\ Len(Detail.fields.blocks) = 8
    /\ Detail.fields.blocks[8].time = [fromtimestamp |-> JNum(8000, 0)]

\* An air-quality call on a payload whose list has a first entry.
AirQualityRendered ==
    /\ FormatEnded
    /\ fmt.fn = "format_air_quality_response"
    /\ EntriesOf(fmt.data) # <<>>
\* The index of a payload: main.aqi of its first entry, null when missing.
AqiOf(data) ==
    LET main == Part(FirstPart(data, "list"), "main")
    IN  IF Has(main, "aqi") THEN main.d.aqi ELSE JNull
\* The label of the indexes 1..5.
LabelOf(k) == CASE k = 1 -> "Good" [] k = 2 -> "Fair" [] k = 3 -> "Moderate" [] k = 4 -> "Poor" [] k = 5 -> "Very Poor"

\* C26: the air-quality formatter writes '<aqi> - <label>' for the index of
\* the first entry of the list, the labels being 1 Good, 2 Fair, 3 Moderate,
\* 4 Poor, 5 Very Poor; an index that is none of 1..5 is labelled
\* 'Unknown', and so is a missing index, written 0.  The components have no
\* part in it: payloads with the same index give the same index and label.
C26_AqiLabel ==
    AirQualityRendered
    => LET aqi == AqiOf(fmt.data)
           present == Has(Part(FirstPart(fmt.data, "list"), "main"), "aqi")
       IN  /\ fmt.ret.ok
           /\ fmt.ret.v.text = "Air Quality Index (AQI)"
           /\ Detail.fields.aqi = IF present THEN Str(aqi) ELSE Zero
           /\ \A k \in 1 .. 5 :
                 (present /\ aqi.t = "num" /\ aqi.m = k * 10 ^ aqi.e) => Detail.fields.label = LabelOf(k)
           /\ (present /\ aqi = JNum(2, 0)) => Detail.fields.aqi = <<"2">> /\ Detail.fields.label = "Fair"
           /\ (~present \/ aqi.t # "num" \/ \A k \in 1 .. 5 : aqi.m # k * 10 ^ aqi.e)
              => Detail.fields.label = "Unknown"
           /\ \A other \in AirQualityPayloads :
                 (EntriesOf(other) # <<>> /\ Part(FirstPart(other, "list"), "main") = Part(FirstPart(fmt.data, "list"), "main"))
                 => LET r == Formatted([fmt EXCEPT !.data = other])
                    IN  r.ok /\ r.v.detail.fields.aqi = Detail.fields.aqi /\ r.v.detail.fields.label = Detail.fields.label

\* Index 2 with the components of the test: '2 - Fair'.
C26_Witness ==
    /\ AirQualityRendered
    /\ AqiOf(fmt.data) = JNum(2, 0)
    /\ Part(FirstPart(fmt.data, "list"), "components") = JDict(FullComponents)
    /\ fmt.ret.ok
    /\ Detail.fields.aqi = <<"2">>
    /\ Detail.fields.label = "Fair"
    /\ Detail.fields.components[1] = <<"2", "0", "1", ".", "2", "7">>

---------------------------------------------------------------------------
(* Starting the server (main.py:432-454, run.py:13-91): the checks of the  *)
(* launcher, the check of main(), then the invocations of SpecCall served  *)
(* by the process that passed them.                                        *)

\* The value .env.example gives the credential (run.py:49).
Placeholder == "your_api_key_here"
\* What the environment holds for OPENWEATHER_API_KEY once .env is loaded:
\* nothing, the placeholder, a key of the provider.
StartKeys == { "", Placeholder, "KEY" }

\* Mutant: the placeholder taken for a key.
ApiKeyConfiguredNonEmpty(key) == key # ""
\* `not api_key or api_key == "your_api_key_here"` is false (run.py:49).
ApiKeyConfigured(key) == key # "" /\ key # Placeholder

\* sys.exit(1)
Exit(p) == [p EXCEPT !.pc = "exited", !.code = 1]

\* run.py main(), step 1: check_dependencies (run.py:13-26, 68-70).
CheckDependencies ==
    /\ process.pc = "start"
    /\ process.entry = "run.py"
    /\ process' = IF process.dependencies THEN [process EXCEPT !.pc = "dependencies_ok"] ELSE Exit(process)
    /\ UNCHANGED <<fetchVars, resolveVars, callVars, fmt, notes>>

\* run.py main(), step 2: check_env_file (run.py:29-57, 74-76): the file
\* .env exists and the credential is neither unset nor the placeholder.
CheckEnvFile ==
    /\ process.pc = "dependencies_ok"
    /\ process' = IF process.env_file /\ ApiKeyConfigured(api_key)
                  THEN [process EXCEPT !.pc = "configuration_ok"]
                  ELSE Exit(process)
    /\ UNCHANGED <<fetchVars, resolveVars, callVars, fmt, notes>>

\* asyncio.run(main()): by run.py after its checks (run.py:83-86), by
\* main.py run as a script at once (main.py:446-448), where a missing
\* package ends the process at the imports (main.py:13-25).
Launch ==
    /\ \/ process.pc = "configuration_ok"
       \/ process.pc = "start" /\ process.entry = "main.py"
    /\ process' = IF process.dependencies THEN [process EXCEPT !.pc = "main"] ELSE Exit(process)
    /\ UNCHANGED <<fetchVars, resolveVars, callVars, fmt, notes>>

\* main() (main.py:432-443): without a credential the process exits with
\* status 1, with one it serves.
ServerMain ==
    /\ process.pc = "main"
    /\ process' = IF KeyConfigured(OPENWEATHER_API_KEY) THEN [process EXCEPT !.pc = "serving"] ELSE Exit(process)
    /\ UNCHANGED <<fetchVars, resolveVars, callVars, fmt, notes>>

\* app.run (main.py:443) hands an invocation to call_tool.
Serve(name, arguments) == process.pc = "serving" /\ CallTool("t1", name, arguments)

\* The provider's answers to a request: it answers 200 to none that carries
\* a key it has not issued.
ProviderOutcomes(request) ==
    IF request.params # <<>> /\ request.params.appid # "KEY"
    THEN { o \in OutcomesFor(request) : o.kind # "response" \/ o.status # 200 }
    ELSE OutcomesFor(request)

\* A process about to start: by the launcher or by main.py itself, with or
\* without the packages and the .env file, with any of the credentials.
InitStart ==
    /\ api_key \in StartKeys
    /\ process \in { [pc |-> "start", entry |-> e, dependencies |-> d, env_file |-> f, code |-> 0] :
                        e \in {"run.py", "main.py"}, d \in BOOLEAN, f \in BOOLEAN }
    /\ calls = NoCalls
    /\ listed = <<>>
    /\ fmt = NoFormat
    /\ notes = NoNotes
    /\ req = GeocodeRequest(<<>>)
    /\ max_retries = DefaultMaxRetries
    /\ attempt = 0
    /\ fpc = "idle"
    /\ result = NoResult
    /\ trace = <<>>
    /\ location = <<>>
    /\ rpc = "idle"
    /\ rresult = NoResult
    /\ lookups = <<>>
    /\ prev = NoResult

NextStart ==
    \/ CheckDependencies
    \/ CheckEnvFile
    \/ Launch
    \/ ServerMain
    \/ \E name \in Names, arguments \in Arguments : Serve(name, arguments)
    \/ \E o \in ProviderOutcomes(calls["t1"].req) : TaskGet("t1", o)
    \/ TaskBackoff("t1")
    \/ TaskPause("t1")
    \/ TaskReturn("t1")

SpecStart == InitStart /\ [][NextStart]_vars

---------------------------------------------------------------------------
(* Claims about the start of the server, checked under SpecStart.          *)

\* The process serves, or has served, invocations.
Serving == process.pc = "serving"
\* The texts of a failure: every text of call_tool that is no formatter's.
FailureTexts == { "Error", "Unexpected error", "Error: Unknown tool", KeyNotSetText.text, LocationRequiredText.text }
\* The invocation ended with a text that tells a failure, or with an
\* exception.
EndedInFailure ==
    \/ TheCall.ret.how = "raise"
    \/ /\ TheCall.ret.how = "return"
       /\ Len(TheCall.ret.value) = 1
       /\ TheCall.ret.value[1].text.text \in FailureTexts

---------------------------------------------------------------------------
(* The notes application (week2/app): extraction of action items           *)
(* (services/extract.py), their storage (db.py) and the extract endpoint   *)
(* (routers/action_items.py).  A str is a sequence of characters.          *)

UpperCase == <<"A", "B", "C", "D", "E", "F", "G", "H", "I", "J", "K", "L", "M", "N", "O", "P", "Q", "R", "S", "T", "U", "V", "W", "X", "Y", "Z">>
LowerCase == <<"a", "b", "c", "d", "e", "f", "g", "h", "i", "j", "k", "l", "m", "n", "o", "p", "q", "r", "s", "t", "u", "v", "w", "x", "y", "z">>
IsLetter(c) == \E i \in 1 .. Len(UpperCase) : c = UpperCase[i] \/ c = LowerCase[i]
\* s.lower(), for ASCII.
LowerChar(c) ==
    IF \E i \in 1 .. Len(UpperCase) : c = UpperCase[i]
    THEN LowerCase[CHOOSE i \in 1 .. Len(UpperCase) : c = UpperCase[i]]
    ELSE c
Lower(s) == [i \in 1 .. Len(s) |-> LowerChar(s[i])]
\* s.startswith(p)
StartsWith(s, p) == Len(s) >= Len(p) /\ SubSeq(s, 1, Len(p)) = p
\* p in s, for a str p
HasSubstring(s, p) == \E i \in 1 .. Len(s) - Len(p) + 1 : SubSeq(s, i, i + Len(p) - 1) = p
\* s.removeprefix(p)
RemovePrefix(s, p) == IF StartsWith(s, p) THEN SubSeq(s, Len(p) + 1, Len(s)) ELSE s

RECURSIVE SplitLines(_)
\* s.splitlines(), the line boundary being "\n"
SplitLines(s) ==
    IF s = <<>> THEN <<>>
    ELSE IF ~Contains(s, "\n") THEN <<s>>
    ELSE LET n == FirstIndex(s, "\n")
         IN  <<SubSeq(s, 1, n - 1)>> \o SplitLines(SubSeq(s, n + 1, Len(s)))

RECURSIVE SkipSpaces(_, _)
\* The first index from i on that holds no whitespace.
SkipSpaces(s, i) == IF i <= Len(s) /\ IsSpace(s[i]) THEN SkipSpaces(s, i + 1) ELSE i
RECURSIVE SkipDigits(_, _)
SkipDigits(s, i) == IF i <= Len(s) /\ IsDigit(s[i]) THEN SkipDigits(s, i + 1) ELSE i

\* The character U+2022 of BULLET_PREFIX_PATTERN, written as one token.
Bullet == "U+2022"
\* BULLET_PREFIX_PATTERN (extract.py:13), ^\s*([-*U+2022]|\d+\.)\s+ : the
\* length of its match at the start of s, 0 when it does not match.
BulletPrefix(s) ==
    LET i == SkipSpaces(s, 1)
        d == SkipDigits(s, i)
        j == IF i <= Len(s) /\ s[i] \in { "-", "*", Bullet } THEN i + 1
             ELSE IF d > i /\ d <= Len(s) /\ s[d] = "." THEN d + 1
             ELSE 0
    IN  IF j # 0 /\ SkipSpaces(s, j) > j THEN SkipSpaces(s, j) - 1 ELSE 0

KEYWORD_PREFIXES == << <<"t", "o", "d", "o", ":">>, <<"a", "c", "t", "i", "o", "n", ":">>, <<"n", "e", "x", "t", ":">> >>
Checkbox == <<"[", " ", "]">>
TodoBox == <<"[", "t", "o", "d", "o", "]">>

\* _is_action_line (extract.py:21-31)
IsActionLine(line) ==
    LET stripped == Lower(Strip(line))
    IN  /\ stripped # <<>>
        /\ \/ BulletPrefix(stripped) > 0
           \/ \E i \in 1 .. Len(KEYWORD_PREFIXES) : StartsWith(stripped, KEYWORD_PREFIXES[i])
           \/ HasSubstring(stripped, Checkbox)
           \/ HasSubstring(stripped, TodoBox)

\* The item of an action line (extract.py:42-47): the bullet and the
\* checkbox markers taken off, also when nothing is left.
Cleaned(line) ==
    <<Strip(RemovePrefix(Strip(RemovePrefix(Strip(SubSeq(line, BulletPrefix(line) + 1, Len(line))), Checkbox)), TodoBox))>>

RECURSIVE ExtractedLines(_)
\* The loop over the lines (extract.py:37-47).
ExtractedLines(lines) ==
    IF lines = <<>> THEN <<>>
    ELSE LET line == Strip(Head(lines))
         IN  (IF line # <<>> /\ IsActionLine(line) THEN Cleaned(line) ELSE <<>>) \o ExtractedLines(Tail(lines))

RECURSIVE SplitSentences(_)
\* re.split(r"(?<=[.!?])\s+", s) (extract.py:50)
SplitSentences(s) ==
    LET ends == { i \in 2 .. Len(s) : IsSpace(s[i]) /\ s[i - 1] \in { ".", "!", "?" } }
    IN  IF ends = {} THEN <<s>>
        ELSE LET n == CHOOSE i \in ends : \A j \in ends : i <= j
             IN  <<SubSeq(s, 1, n - 1)>> \o SplitSentences(SubSeq(s, SkipSpaces(s, n), Len(s)))

IsWordChar(c) == IsLetter(c) \/ c = "'"
RECURSIVE SkipWord(_, _)
SkipWord(s, i) == IF i <= Len(s) /\ IsWordChar(s[i]) THEN SkipWord(s, i + 1) ELSE i
ImperativeStarters ==
    { <<"a", "d", "d">>,
      <<"c", "r", "e", "a", "t", "e">>,
      <<"i", "m", "p", "l", "e", "m", "e", "n", "t">>,
      <<"f", "i", "x">>,
      <<"u", "p", "d", "a", "t", "e">>,
      <<"w", "r", "i", "t", "e">>,
      <<"c", "h", "e", "c", "k">>,
      <<"v", "e", "r", "i", "f", "y">>,
      <<"r", "e", "f", "a", "c", "t", "o", "r">>,
      <<"d", "o", "c", "u", "m", "e", "n", "t">>,
      <<"d", "e", "s", "i", "g", "n">>,
      <<"i", "n", "v", "e", "s", "t", "i", "g", "a", "t", "e">> }
\* _looks_imperative (extract.py:117-138): the first word of the sentence is
\* one of the starters.
LooksImperative(sentence) ==
    /\ \E i \in 1 .. Len(sentence) : IsWordChar(sentence[i])
    /\ LET first == CHOOSE i \in 1 .. Len(sentence) :
                        IsWordChar(sentence[i]) /\ \A j \in 1 .. i - 1 : ~IsWordChar(sentence[j])
       IN  Lower(SubSeq(sentence, first, SkipWord(sentence, first) - 1)) \in ImperativeStarters

RECURSIVE ImperativeSentences(_)
\* The loop over the sentences (extract.py:51-56).
ImperativeSentences(sentences) ==
    IF sentences = <<>> THEN <<>>
    ELSE (IF Strip(Head(sentences)) # <<>> /\ LooksImperative(Strip(Head(sentences)))
          THEN <<Strip(Head(sentences))>> ELSE <<>>)
         \o ImperativeSentences(Tail(sentences))

RECURSIVE Unique(_, _)
\* The items in their order, without those whose lower case was seen
\* (extract.py:58-66).
Unique(items, seen) ==
    IF items = <<>> THEN <<>>
    ELSE IF Lower(Head(items)) \in seen THEN Unique(Tail(items), seen)
    ELSE <<Head(items)>> \o Unique(Tail(items), seen \cup { Lower(Head(items)) })

\* extract_action_items (extract.py:34-66)
extract_action_items(text) ==
    LET extracted == ExtractedLines(SplitLines(text))
    IN  Unique(IF extracted # <<>> THEN extracted ELSE ImperativeSentences(SplitSentences(Strip(text))), {})

\* The answers of client.chat (the Ollama client, app/client.py): it raises,
\* or returns a response whose content is no JSON or the JSON document v.
ChatRaises == [kind |-> "raise", body |-> TextBody("")]
ChatReturns(body) == [kind |-> "response", body |-> body]

RECURSIVE StrippedNonBlank(_)
\* [item.strip() for item in parsed if item.strip()] (extract.py:110)
StrippedNonBlank(items) ==
    IF items = <<>> THEN <<>>
    ELSE (IF Strip(Head(items).s) # <<>> THEN <<Strip(Head(items).s)>> ELSE <<>>) \o StrippedNonBlank(Tail(items))

\* extract_action_items_llm (extract.py:69-114), chat being the answer of
\* client.chat: ValidationError for a blank text, LLMError when the client
\* raises or the content is no JSON, the stripped non-blank strings when the
\* document is a list of strings; for any other document the function ends
\* without a return statement and returns None.
extract_action_items_llm(text, chat) ==
    IF Strip(text) = <<>> THEN Raised("ValidationError")
    ELSE IF chat.kind = "raise" THEN Raised("LLMError")
    ELSE IF ~chat.body.json THEN Raised("LLMError")
    ELSE IF chat.body.v.t = "list" /\ \A i \in 1 .. Len(chat.body.v.items) : chat.body.v.items[i].t = "str"
    THEN Got(JList(StrippedNonBlank(chat.body.v.items)))
    ELSE Got(JNull)

\* db.insert_note (db.py:66-79): the row appended, its id returned; ids are
\* given in sequence.
insert_note(table, content) ==
    IF Strip(content) = <<>> THEN [raised |-> "DatabaseError", id |-> 0, table |-> table]
    ELSE [raised |-> "", id |-> Len(table) + 1, table |-> Append(table, [id |-> Len(table) + 1, content |-> content])]

RECURSIVE InsertEach(_, _, _)
\* The loop of insert_action_items (db.py:124-130): a row for every item
\* that is not blank.
InsertEach(table, items, note_id) ==
    IF items = <<>> THEN [ids |-> <<>>, table |-> table]
    ELSE IF Strip(Head(items)) # <<>>
    THEN LET row == [id |-> Len(table) + 1, note_id |-> note_id, text |-> Strip(Head(items))]
             rest == InsertEach(Append(table, row), Tail(items), note_id)
         IN  [ids |-> <<row.id>> \o rest.ids, table |-> rest.table]
    ELSE InsertEach(table, Tail(items), note_id)

\* db.insert_action_items (db.py:115-133); items is a list or None, note_id
\* an id or 0 for None.
insert_action_items(table, items, note_id) ==
    IF items.t # "list" \/ items.items = <<>> THEN [ids |-> <<>>, table |-> table]
    ELSE InsertEach(table, items.items, note_id)

\* zip(ids, items) (action_items.py:50)
Zip(ids, items) ==
    [i \in 1 .. (IF Len(ids) < Len(items) THEN Len(ids) ELSE Len(items)) |-> <<ids[i], items[i]>>]

\* The choice of the extraction method (action_items.py:30-37).
ChosenItems(text, use_llm, chat) ==
    IF use_llm
    THEN LET llm == extract_action_items_llm(text, chat)
         IN  IF ~llm.ok /\ llm.exc = "LLMError" THEN Got(JList(extract_action_items(text))) ELSE llm
    ELSE Got(JList(extract_action_items(text)))

\* extract (action_items.py:14-52) on the tables n: the tables after the
\* request, the items extracted, and the response or the exception.
extract(n, payload, chat) ==
    LET text == Strip(payload.text)
        note == IF payload.save_note THEN insert_note(n.notes, text) ELSE [raised |-> "", id |-> 0, table |-> n.notes]
        items == ChosenItems(text, payload.use_llm, chat)
        stored == insert_action_items(n.action_items, items.v, note.id)
    IN  IF text = <<>>
        THEN [n EXCEPT !.ret = [how |-> "raise", exc |-> "ValidationError", value |-> <<>>]]
        ELSE IF note.raised # ""
        THEN [n EXCEPT !.ret = [how |-> "raise", exc |-> note.raised, value |-> <<>>]]
        ELSE IF ~items.ok
        THEN [n EXCEPT !.notes = note.table, !.ret = [how |-> "raise", exc |-> items.exc, value |-> <<>>]]
        ELSE IF items.v.t # "list"
        THEN [n EXCEPT !.notes = note.table, !.action_items = stored.table, !.items = items.v,
                       !.ret = [how |-> "raise", exc |-> "TypeError", value |-> <<>>]]
        ELSE [n EXCEPT !.notes = note.table, !.action_items = stored.table, !.items = items.v,
                       !.ret = [how |-> "return", exc |-> "",
                                value |-> [note_id |-> note.id,
                                           items |-> [i \in 1 .. Len(Zip(stored.ids, items.v.items)) |->
                                                         [id |-> Zip(stored.ids, items.v.items)[i][1],
                                                          text |-> Zip(stored.ids, items.v.items)[i][2],
                                                          note_id |-> note.id, done |-> FALSE,
                                                          created_at |-> <<>>]]]]]

\* POST /action-items/extract: one request handled to its end; before is
\* the number of action items there were.
Extract(payload, chat) ==
    /\ notes.pc = "idle"
    /\ notes' = [extract([notes EXCEPT !.payload = payload, !.chat = chat, !.before = Len(notes.action_items)],
                         payload, chat) EXCEPT !.pc = "done"]
    /\ UNCHANGED <<fetchVars, resolveVars, callVars, process, fmt>>

\* The most lines of a request's text.
MaxLines == 2

\* The lines explored: a checkbox with nothing after it, bullets, a keyword,
\* a numbered line, sentences, a word, a blank line, a marker.
Lines ==
    { <<"-", " ", "[", " ", "]">>,
      <<"-", " ", "a">>,
      <<"*", " ", "A">>,
      <<"t", "o", "d", "o", ":", " ", "b">>,
      <<"1", ".", " ", "c">>,
      <<"F", "i", "x", " ", "d", ".", " ", "e">>,
      <<"e">>,
      <<" ">>,
      <<"[", "t", "o", "d", "o", "]", " ", "a">> }

RECURSIVE Joined(_)
\* "\n".join(lines)
Joined(lines) ==
    IF lines = <<>> THEN <<>>
    ELSE IF Len(lines) = 1 THEN Head(lines)
    ELSE Head(lines) \o <<"\n">> \o Joined(Tail(lines))

\* The texts of 1 to MaxLines lines.
Texts == UNION { { Joined(l) : l \in [1 .. n -> Lines] } : n \in 1 .. MaxLines }

\* The requests: ExtractRequest (schemas.py:63-72).
Payloads == { [text |-> t, save_note |-> s, use_llm |-> u] : t \in Texts, s \in BOOLEAN, u \in BOOLEAN }

\* The answers of the client explored.
Chats ==
    { ChatRaises, ChatReturns(TextBody("invalid json")) }
    \cup { ChatReturns(JsonBody(v)) :
              v \in { JList(<<JStr(<<"a">>), JStr(<<" ", "B", " ">>)>>), JList(<<JStr(<<" ">>), JStr(<<"a">>)>>), JList(<<>>),
                      JList(<<JNum(1, 0)>>), JDict(<<>>), JStr(<<"a">>), JNull } }

\* The tables before the request: empty, or with the note and the item of an
\* earlier request.
InitExtract ==
    /\ notes \in { [NoNotes EXCEPT !.pc = "idle"],
                   [NoNotes EXCEPT !.pc = "idle",
                                   !.notes = <<[id |-> 1, content |-> <<"-", " ", "z">>]>>,
                                   !.action_items = <<[id |-> 1, note_id |-> 1, text |-> <<"z">>]>>] }
    /\ api_key = "KEY"
    /\ calls = NoCalls
    /\ listed = <<>>
    /\ process = NoProcess
    /\ fmt = NoFormat
    /\ req = GeocodeRequest(<<>>)
    /\ max_retries = DefaultMaxRetries
    /\ attempt = 0
    /\ fpc = "idle"
    /\ result = NoResult
    /\ trace = <<>>
    /\ location = <<>>
    /\ rpc = "idle"
    /\ rresult = NoResult
    /\ lookups = <<>>
    /\ prev = NoResult

NextExtract == \E payload \in Payloads, chat \in Chats : Extract(payload, chat)

SpecExtract == InitExtract /\ [][NextExtract]_vars

---------------------------------------------------------------------------
(* Claims about the extract endpoint, checked under SpecExtract.           *)

\* The request was handled; its text, stripped.
Handled == notes.pc = "done"
RequestText == Strip(notes.payload.text)
\* The rows the request inserted.
NewRows == SubSeq(notes.action_items, notes.before + 1, Len(notes.action_items))
\* The documents that are a list of strings.
ListOfStrings(v) == v.t = "list" /\ \A i \in 1 .. Len(v.items) : v.items[i].t = "str"
\* The LLM failed: the client raised, or its content is no JSON, or it is
\* JSON that is no list of strings.
LlmFailed(chat) == chat.kind = "raise" \/ ~chat.body.json \/ ~ListOfStrings(chat.body.v)
NonBlank(item) == Strip(item) # <<>>

\* C27: whenever the LLM call raises, returns invalid JSON or returns JSON
\* that is no list of strings, extract does not fail: it returns, the items
\* it extracted are those of the heuristic extractor for the same text, and
\* the rows it stored are those items (the blank ones left out).
C27_LlmFailureFallsBack ==
    (Handled /\ notes.payload.use_llm /\ RequestText # <<>> /\ LlmFailed(notes.chat))
    => /\ notes.ret.how = "return"
       /\ notes.items = JList(extract_action_items(RequestText))
       /\ [i \in 1 .. Len(NewRows) |-> NewRows[i].text]
          = SelectSeq(extract_action_items(RequestText), NonBlank)

\* C30: every item of the response of extract pairs an id with the text
\* stored under that id, and the response has as many items as rows were
\* inserted, whatever the items extracted, blank ones included.
C30_ResponsePairsStoredText ==
    (Handled /\ notes.ret.how = "return")
    => /\ Len(notes.ret.value.items) = Len(NewRows)
       /\ \A i \in 1 .. Len(notes.ret.value.items) :
             \E j \in 1 .. Len(notes.action_items) :
                /\ notes.action_items[j].id = notes.ret.value.items[i].id
                /\ notes.action_items[j].text = notes.ret.value.items[i].text

====
